---------------------------- MODULE Spec2Model ----------------------------
(***************************************************************************)
(* A model of dinosaur_news_monitor.py: the polling cycle of               *)
(* DinosaurNewsMonitor (feed entries -> dedup -> prefilter -> remote judge *)
(* -> translate -> send -> save_state), its restart from the state file,   *)
(* and the classification functions as callable operations.                *)
(*                                                                         *)
(* Text is modelled as a sequence of one-character strings, so that        *)
(* lower(), upper(), strip() and the substring test `kw in text` are       *)
(* computed and not assumed.                                               *)
(***************************************************************************)
EXTENDS Integers, Sequences, FiniteSets, TLC

\* ------------------------------------------------------------------ bounds
\* get_or_translate coroutines in flight at once (TRANSLATION_BATCH_SIZE)
MaxTasks == 2
\* self.daily_limit (CLAUDE_DAILY_LIMIT)
daily_limit == 2
\* translate_func invocations followed
MaxInvocations == 3
\* date changes followed
MaxTicks == 1
\* texts a batch of translations draws from, and the CLAUDE_DAILY_LIMIT it
\* runs under
NumBatchTexts == 11
BatchDailyLimit == 11
MaxBatchCalls == 12
\* how long the scheduler is followed, in scheduling intervals
MaxClock == 4
\* polling cycles started in one behaviour
MaxCycles == 2
\* process restarts in one behaviour
MaxRestarts == 1
\* feeds visited per cycle (stands for len(self.rss_feeds))
NumFeeds == 2
\* entries a feed carries in one cycle
MaxFeedLen == 2
\* feed.entries[:10]
EntriesPerFeed == 10

\* ------------------------------------------------------------------- text
UpperCase ==
   <<"A","B","C","D","E","F","G","H","I","J","K","L","M",
     "N","O","P","Q","R","S","T","U","V","W","X","Y","Z">>
LowerCase ==
   <<"a","b","c","d","e","f","g","h","i","j","k","l","m",
     "n","o","p","q","r","s","t","u","v","w","x","y","z">>
Whitespace == {" ", "\n", "\t"}

\* str.lower() on one character
lower_char(c) ==
   IF \E i \in 1..26 : UpperCase[i] = c
   THEN LowerCase[CHOOSE i \in 1..26 : UpperCase[i] = c]
   ELSE c
\* str.upper() on one character
upper_char(c) ==
   IF \E i \in 1..26 : LowerCase[i] = c
   THEN UpperCase[CHOOSE i \in 1..26 : LowerCase[i] = c]
   ELSE c
lower(s) == [i \in 1..Len(s) |-> lower_char(s[i])]
upper(s) == [i \in 1..Len(s) |-> upper_char(s[i])]

\* str.strip(): leading and trailing whitespace removed
strip(s) ==
   LET keep == {i \in 1..Len(s) : s[i] \notin Whitespace}
   IN IF keep = {} THEN <<>>
      ELSE LET lo == CHOOSE i \in keep : \A j \in 1..(i - 1) : s[j] \in Whitespace
               hi == CHOOSE i \in keep : \A j \in (i + 1)..Len(s) : s[j] \in Whitespace
           IN SubSeq(s, lo, hi)

\* Python's `kw in text` for strings
IsSubstring(kw, text) ==
   \E i \in 0..(Len(text) - Len(kw)) :
      \A j \in 1..Len(kw) : text[i + j] = kw[j]

\* the first index of `list` at or after i whose keyword occurs in text,
\* 0 when none does: the `for keyword in list: if keyword in text: return`
RECURSIVE FirstMatch(_, _, _)
FirstMatch(list, text, i) ==
   IF i > Len(list) THEN 0
   ELSE IF IsSubstring(list[i], text) THEN i
   ELSE FirstMatch(list, text, i + 1)


\* ------------------------------------------------------------ keywords
\* prefilter_before_api: local list instant_approve_keywords, in source order
instant_approve_keywords ==
   <<
      <<"d","i","n","o","s","a","u","r">>,
      <<"d","i","n","o","s","a","u","r","s">>,
      <<"f","o","s","s","i","l">>,
      <<"f","o","s","s","i","l","s">>,
      <<"p","a","l","e","o","n","t","o","l","o","g","y">>,
      <<"p","a","l","e","o","n","t","o","l","o","g","i","s","t">>,
      <<"t","y","r","a","n","n","o","s","a","u","r","u","s">>,
      <<"t","r","i","c","e","r","a","t","o","p","s">>,
      <<"s","t","e","g","o","s","a","u","r","u","s">>,
      <<"v","e","l","o","c","i","r","a","p","t","o","r">>,
      <<"c","r","e","t","a","c","e","o","u","s">>,
      <<"j","u","r","a","s","s","i","c">>,
      <<"t","r","i","a","s","s","i","c">>,
      <<"m","e","s","o","z","o","i","c">>,
      <<"p","r","e","h","i","s","t","o","r","i","c"," ","r","e","p","t","i","l","e">>,
      <<"a","n","c","i","e","n","t"," ","r","e","p","t","i","l","e">>,
      <<"f","o","s","s","i","l"," ","d","i","s","c","o","v","e","r","y">>,
      <<"p","a","l","e","o","n","t","o","l","o","g","i","c","a","l">>,
      <<"d","i","n","o","s","a","u","r"," ","s","p","e","c","i","e","s">>,
      <<"e","x","t","i","n","c","t"," ","r","e","p","t","i","l","e">>
   >>

\* prefilter_before_api: local list instant_reject_keywords, in source order
instant_reject_keywords ==
   <<
      <<"c","o","v","i","d">>,
      <<"c","o","r","o","n","a","v","i","r","u","s">>,
      <<"p","a","n","d","e","m","i","c">>,
      <<"v","a","c","c","i","n","e">>,
      <<"m","e","d","i","c","a","l">>,
      <<"c","l","i","n","i","c","a","l">>,
      <<"c","a","n","c","e","r">>,
      <<"t","u","m","o","r">>,
      <<"d","i","s","e","a","s","e">>,
      <<"t","r","e","a","t","m","e","n","t">>,
      <<"t","h","e","r","a","p","y">>,
      <<"h","o","s","p","i","t","a","l">>,
      <<"p","o","l","i","t","i","c","s">>,
      <<"e","l","e","c","t","i","o","n">>,
      <<"g","o","v","e","r","n","m","e","n","t">>,
      <<"p","o","l","i","c","y">>,
      <<"p","r","e","s","i","d","e","n","t">>,
      <<"m","i","n","i","s","t","e","r">>,
      <<"r","o","c","k","e","t">>,
      <<"s","a","t","e","l","l","i","t","e">>,
      <<"s","p","a","c","e"," ","m","i","s","s","i","o","n">>,
      <<"m","a","r","s"," ","r","o","v","e","r">>,
      <<"n","a","s","a"," ","l","a","u","n","c","h">>,
      <<"s","t","o","c","k">>,
      <<"i","n","v","e","s","t","m","e","n","t">>,
      <<"c","r","y","p","t","o","c","u","r","r","e","n","c","y">>,
      <<"b","u","s","i","n","e","s","s">>,
      <<"c","o","m","p","a","n","y">>,
      <<"s","m","a","r","t","p","h","o","n","e">>,
      <<"a","i"," ","t","e","c","h","n","o","l","o","g","y">>,
      <<"a","r","t","i","f","i","c","i","a","l"," ","i","n","t","e","l","l","i","g","e","n","c","e">>,
      <<"m","a","c","h","i","n","e"," ","l","e","a","r","n","i","n","g">>,
      <<"s","c","h","o","o","l"," ","m","e","a","l","s">>,
      <<"f","o","o","d"," ","s","y","s","t","e","m">>,
      <<"n","u","t","r","i","t","i","o","n">>,
      <<"d","i","e","t"," ","c","h","a","n","g","e">>,
      <<"b","r","a","i","n"," ","c","a","n","c","e","r">>
   >>

\* self.exclude_keywords: the head of the list, through 'archaeologists',
\* and 'COVID'; no other entry occurs in a text of Titles x Summaries
exclude_keywords ==
   <<
      <<"r","o","c","k","e","t">>,
      <<"s","p","a","c","e">>,
      <<"s","a","t","e","l","l","i","t","e">>,
      <<"l","a","u","n","c","h">>,
      <<"f","u","n","d","i","n","g">>,
      <<"b","u","s","i","n","e","s","s">>,
      <<"c","o","m","p","a","n","y">>,
      <<"s","t","o","c","k">>,
      <<"i","n","v","e","s","t","m","e","n","t">>,
      <<"c","l","i","n","i","c","a","l">>,
      <<"m","e","d","i","c","a","l">>,
      <<"p","a","t","i","e","n","t">>,
      <<"t","r","e","a","t","m","e","n","t">>,
      <<"t","h","e","r","a","p","y">>,
      <<"d","i","a","g","n","o","s","i","s">>,
      <<"h","o","s","p","i","t","a","l">>,
      <<"p","h","a","r","m","a","c","e","u","t","i","c","a","l">>,
      <<"d","r","u","g">>,
      <<"s","p","a","c","e">>,
      <<"a","s","t","r","o","n","o","m","y">>,
      <<"s","a","t","e","l","l","i","t","e">>,
      <<"n","a","s","a">>,
      <<"m","a","r","s"," ","r","o","v","e","r">>,
      <<"p","l","a","n","e","t","a","r","y">>,
      <<"c","o","s","m","i","c">>,
      <<"s","t","e","l","l","a","r">>,
      <<"g","a","l","a","x","y">>,
      <<"u","n","i","v","e","r","s","e">>,
      <<"h","o","m","o">>,
      <<"a","r","c","h","a","e","o","l","o","g","i","s","t","s">>,
      <<"C","O","V","I","D">>
   >>
\* self.discovery_keywords: the head of the list, through 'triassic', and
\* the later entries that occur in a text of Titles x Summaries
discovery_keywords ==
   <<
      <<"f","o","s","s","i","l">>,
      <<"d","i","n","o","s","a","u","r">>,
      <<"p","a","l","e","o","n","t","o","l","o","g","y">>,
      <<"d","i","s","c","o","v","e","r","y">>,
      <<"f","o","u","n","d">>,
      <<"e","x","t","i","n","c","t">>,
      <<"p","r","e","h","i","s","t","o","r","i","c">>,
      <<"a","n","c","i","e","n","t">>,
      <<"e","v","o","l","u","t","i","o","n">>,
      <<"s","p","e","c","i","e","s">>,
      <<"c","r","e","t","a","c","e","o","u","s">>,
      <<"j","u","r","a","s","s","i","c">>,
      <<"t","r","i","a","s","s","i","c">>,
      <<"n","e","w">>,
      <<"b","o","n","e">>,
      <<"r","e","p","t","i","l","e">>,
      <<"T","r","i","a","s","s","i","c">>,
      <<"J","u","r","a","s","s","i","c">>,
      <<"n","e","w"," ","s","p","e","c","i","e","s">>
   >>

\* _calculate_confidence: local list strong_positive
strong_positive ==
   <<
      <<"d","i","n","o","s","a","u","r">>,
      <<"f","o","s","s","i","l">>,
      <<"p","a","l","e","o","n","t","o","l","o","g","y">>,
      <<"c","r","e","t","a","c","e","o","u","s">>,
      <<"j","u","r","a","s","s","i","c">>,
      <<"m","e","s","o","z","o","i","c">>
   >>

\* _calculate_confidence: local list strong_negative
strong_negative ==
   <<
      <<"c","a","n","c","e","r">>,
      <<"r","o","c","k","e","t">>,
      <<"p","o","l","i","t","i","c","s">>,
      <<"c","o","v","i","d">>,
      <<"s","m","a","r","t","p","h","o","n","e">>,
      <<"A","I"," ","t","e","c","h","n","o","l","o","g","y">>
   >>

\* _calculate_keyword_score: local dict strong_dino (keyword, points)
strong_dino ==
   <<
      [kw |-> <<"d","i","n","o","s","a","u","r">>, points |-> 4],
      [kw |-> <<"f","o","s","s","i","l">>, points |-> 3],
      [kw |-> <<"p","a","l","e","o","n","t","o","l","o","g","y">>, points |-> 4],
      [kw |-> <<"c","r","e","t","a","c","e","o","u","s">>, points |-> 3],
      [kw |-> <<"j","u","r","a","s","s","i","c">>, points |-> 3],
      [kw |-> <<"t","r","i","a","s","s","i","c">>, points |-> 3],
      [kw |-> <<"m","e","s","o","z","o","i","c">>, points |-> 4],
      [kw |-> <<"e","x","t","i","n","c","t"," ","r","e","p","t","i","l","e">>, points |-> 3]
   >>

\* _calculate_keyword_score: local dict strong_exclude (keyword, points)
strong_exclude ==
   <<
      [kw |-> <<"c","a","n","c","e","r">>, points |-> -5],
      [kw |-> <<"r","o","c","k","e","t">>, points |-> -4],
      [kw |-> <<"p","o","l","i","t","i","c","s">>, points |-> -4],
      [kw |-> <<"s","m","a","r","t","p","h","o","n","e">>, points |-> -3],
      [kw |-> <<"c","o","v","i","d">>, points |-> -4],
      [kw |-> <<"A","I"," ","t","e","c","h","n","o","l","o","g","y">>, points |-> -3],
      [kw |-> <<"h","u","m","a","n"," ","b","u","r","i","a","l">>, points |-> -4],
      [kw |-> <<"m","o","d","e","r","n"," ","m","e","d","i","c","i","n","e">>, points |-> -4]
   >>


\* ---------------------------------------------------------- sample texts
T_Empty == <<>>
T_Fossil == <<"F","o","s","s","i","l">>
T_fossil == <<"f","o","s","s","i","l">>
T_Covid == <<"C","o","v","i","d">>
T_Bones == <<"B","o","n","e","s">>
T_CovidFossil == <<"c","o","v","i","d"," ","f","o","s","s","i","l">>
T_RFK == <<"R","F","K">>
T_fos == <<"f","o","s">>
T_sil == <<"s","i","l">>
T_mars == <<"m","a","r","s">>
T_rover == <<"r","o","v","e","r">>
T_Triassic == <<"T","r","i","a","s","s","i","c"," ","e","x","t","i","n","c","t"," ","r","e","p","t","i","l","e">>
T_DinoCancer == <<"D","i","n","o","s","a","u","r"," ","c","a","n","c","e","r">>
T_Rocket == <<"r","o","c","k","e","t">>
T_NasaRover ==
   <<"N","A","S","A"," ","r","o","v","e","r"," ","c","a","p","t","u","r","e","s"," ","n","e","w"," ","i","m","a","g","e"," ","o","f"," ","M","a","r","t","i","a","n"," ","c","r","a","t","e","r">>
T_CancerRocket == <<"c","a","n","c","e","r"," ","r","o","c","k","e","t">>
T_AncientBones ==
   <<"A","n","c","i","e","n","t"," ","b","o","n","e","s"," ","r","e","v","e","a","l"," ","n","e","w"," ","s","p","e","c","i","e","s">>
T_JurassicDino == <<"J","u","r","a","s","s","i","c"," ","d","i","n","o","s","a","u","r">>
L_a == <<"a">>
L_b == <<"b">>
L_c == <<"c">>
R_RELEVANT == <<"R","E","L","E","V","A","N","T">>
R_IRRELEVANT == <<"I","R","R","E","L","E","V","A","N","T">>
R_relevant_ws == <<" ","r","e","l","e","v","a","n","t","\n">>
R_Irrelevant == <<"I","r","r","e","l","e","v","a","n","t">>
R_RelevantDot == <<"R","E","L","E","V","A","N","T",".">>
R_Maybe == <<"m","a","y","b","e">>
S_ERROR == <<"E","R","R","O","R">>

\* ---------------------------------------------------------- Python values
\* Optional[bool] as returned by prefilter_before_api
PyTrue == "True"
PyFalse == "False"
PyNone == "None"

\* ------------------------------------------------------------- prefilter
\* prefilter_before_api with the two loops in the other order
prefilter_before_api_reject_first(title, summary) ==
   LET combined_text == lower(title \o <<" ">> \o summary)
   IN IF FirstMatch(instant_reject_keywords, combined_text, 1) # 0
      THEN PyFalse
      ELSE IF FirstMatch(instant_approve_keywords, combined_text, 1) # 0
      THEN PyTrue
      ELSE PyNone

prefilter_before_api(title, summary) ==
   LET combined_text == lower(title \o <<" ">> \o summary)
   IN IF FirstMatch(instant_approve_keywords, combined_text, 1) # 0
      THEN PyTrue
      ELSE IF FirstMatch(instant_reject_keywords, combined_text, 1) # 0
      THEN PyFalse
      ELSE PyNone

\* ----------------------------------------------------------- remote judge
\* What self.claude_client.messages.create can do: answer with a text,
\* raise, time out, or answer with an empty content list (IndexError).
ApiReplies ==
   {R_RELEVANT, R_IRRELEVANT, R_relevant_ws, R_Irrelevant, R_RelevantDot,
    R_Maybe, T_Empty}
ApiFailureKinds == {"exception", "timeout", "no_content"}
ApiOutcomes ==
   [kind : {"reply"}, text : ApiReplies]
      \cup [kind : ApiFailureKinds, text : {T_Empty}]

\* classify_with_claude without its try/except
classify_with_claude_unguarded(client, title, summary, api) ==
   IF ~client
   THEN [raised |-> FALSE, value |-> FALSE]
   ELSE IF api.kind # "reply"
   THEN [raised |-> TRUE, value |-> FALSE]
   ELSE [raised |-> FALSE, value |-> upper(strip(api.text)) = R_RELEVANT]

\* classify_with_claude taking any reply that starts with RELEVANT
classify_with_claude_prefix(client, title, summary, api) ==
   IF ~client \/ api.kind # "reply"
   THEN [raised |-> FALSE, value |-> FALSE]
   ELSE LET classification == upper(strip(api.text))
        IN [raised |-> FALSE,
            value |-> /\ Len(classification) >= Len(R_RELEVANT)
                      /\ SubSeq(classification, 1, Len(R_RELEVANT)) = R_RELEVANT]

\* `raised`: an exception leaves the call; `value`: the bool returned
classify_with_claude(client, title, summary, api) ==
   IF ~client
   THEN [raised |-> FALSE, value |-> FALSE]
   ELSE IF api.kind # "reply"
   THEN \* except Exception: return False
        [raised |-> FALSE, value |-> FALSE]
   ELSE LET classification == upper(strip(api.text))
        IN IF classification = R_RELEVANT
           THEN [raised |-> FALSE, value |-> TRUE]
           ELSE IF classification = R_IRRELEVANT
           THEN [raised |-> FALSE, value |-> FALSE]
           ELSE [raised |-> FALSE, value |-> FALSE]

\* classify_with_prefilter rejecting what the prefilter leaves undecided
classify_with_prefilter_never_judge(client, title, summary, api) ==
   [raised |-> FALSE, value |-> (prefilter_before_api(title, summary) = PyTrue),
    judge_calls |-> 0]

\* classify_with_prefilter asking the judge whatever the prefilter said
classify_with_prefilter_always_judge(client, title, summary, api) ==
   LET j == classify_with_claude(client, title, summary, api)
   IN [raised |-> j.raised, value |-> j.value, judge_calls |-> 1]

classify_with_prefilter(client, title, summary, api) ==
   LET prefilter_result == prefilter_before_api(title, summary)
       j == classify_with_claude(client, title, summary, api)
   IN IF prefilter_result # PyNone
      THEN [raised |-> FALSE, value |-> (prefilter_result = PyTrue),
            judge_calls |-> 0]
      ELSE [raised |-> j.raised, value |-> j.value, judge_calls |-> 1]

\* `for word in list: if word.lower() in text`
lowered(list) == [i \in 1..Len(list) |-> lower(list[i])]
exclude_words == lowered(exclude_keywords)
discovery_words == lowered(discovery_keywords)

is_dinosaur_news_traditional(title, summary) ==
   LET combined_text == lower(title \o <<" ">> \o summary)
   IN IF FirstMatch(exclude_words, combined_text, 1) # 0
      THEN FALSE
      ELSE FirstMatch(discovery_words, combined_text, 1) # 0

\* is_dinosaur_news_with_api letting the keyword classification veto
is_dinosaur_news_with_api_keyword_veto(client, title, summary, api) ==
   LET api_result == classify_with_claude(client, title, summary, api)
       keyword_result == is_dinosaur_news_traditional(title, summary)
   IN [raised |-> api_result.raised,
       value |-> api_result.value /\ keyword_result,
       judge_calls |-> 1,
       keyword_result |-> keyword_result]

\* `judge_calls`: the calls of classify_with_claude made
is_dinosaur_news_with_api(client, title, summary, api) ==
   LET api_result == classify_with_claude(client, title, summary, api)
       keyword_result == is_dinosaur_news_traditional(title, summary)
   IN [raised |-> api_result.raised,
       value |-> IF api_result.value /\ keyword_result THEN TRUE
                 ELSE IF ~api_result.value /\ ~keyword_result THEN FALSE
                 ELSE api_result.value,
       judge_calls |-> 1,
       keyword_result |-> keyword_result]

\* --------------------------------------------- OptimizedDinosaurClassifier
\* the number of keywords of `list` that occur in text
CountMatches(list, text) ==
   Cardinality({i \in 1..Len(list) : IsSubstring(list[i], text)})

\* 0.7 + p*0.1 - n*0.2 evaluated in IEEE-754 doubles is 0.7999999999999999
\* for these (p, n), where the decimal value is 0.8
FloatJustBelow(p, n) == <<p, n>> \in {<<1, 0>>, <<5, 2>>}

Clamp(lo, hi, x) == IF x < lo THEN lo ELSE IF x > hi THEN hi ELSE x

\* confidence in thousandths
_calculate_confidence(title, summary, classification) ==
   LET combined == lower(title \o <<" ">> \o summary)
       positive_count == CountMatches(strong_positive, combined)
       negative_count == CountMatches(strong_negative, combined)
   IN IF classification = R_RELEVANT
      THEN Clamp(0, 1000,
              700 + positive_count * 100 - negative_count * 200
              - (IF FloatJustBelow(positive_count, negative_count) THEN 1 ELSE 0))
      ELSE Clamp(0, 1000, 800 + negative_count * 100 - positive_count * 100)

classify_text_advanced(title, summary, api) ==
   IF api.kind # "reply"
   THEN \* except Exception
        [decision |-> FALSE, classification |-> S_ERROR, confidence |-> 0]
   ELSE LET classification == upper(strip(api.text))
        IN [decision |-> (classification = R_RELEVANT),
            classification |-> classification,
            confidence |-> _calculate_confidence(title, summary, classification)]

RECURSIVE SumPoints(_, _, _)
SumPoints(dict, text, i) ==
   IF i > Len(dict) THEN 0
   ELSE (IF IsSubstring(dict[i].kw, text) THEN dict[i].points ELSE 0)
        + SumPoints(dict, text, i + 1)

_calculate_keyword_score(title, summary) ==
   LET combined == lower(title \o <<" ">> \o summary)
   IN SumPoints(strong_dino, combined, 1) + SumPoints(strong_exclude, combined, 1)

Abs(x) == IF x < 0 THEN -x ELSE x
Min(a, b) == IF a < b THEN a ELSE b

\* hybrid_classification whose keyword branch reports less confidence for a
\* larger score
hybrid_classification_fading(title, summary, api) ==
   LET claude_result == classify_text_advanced(title, summary, api)
       keyword_score == _calculate_keyword_score(title, summary)
   IN IF claude_result.confidence >= 800
      THEN [decision |-> claude_result.decision,
            confidence |-> claude_result.confidence,
            method |-> "claude_high_confidence",
            keyword_score |-> keyword_score]
      ELSE IF Abs(keyword_score) >= 5
      THEN [decision |-> keyword_score > 0,
            confidence |-> 1400 - Abs(keyword_score) * 100,
            method |-> "keyword_clear_signal",
            keyword_score |-> keyword_score]
      ELSE [decision |-> FALSE,
            confidence |-> 300,
            method |-> "conservative_reject",
            keyword_score |-> keyword_score]

\* hybrid_classification accepting any positive score when nothing is clear
hybrid_classification_lenient(title, summary, api) ==
   LET claude_result == classify_text_advanced(title, summary, api)
       keyword_score == _calculate_keyword_score(title, summary)
   IN IF claude_result.confidence >= 800
      THEN [decision |-> claude_result.decision,
            confidence |-> claude_result.confidence,
            method |-> "claude_high_confidence",
            keyword_score |-> keyword_score]
      ELSE IF Abs(keyword_score) >= 5
      THEN [decision |-> keyword_score > 0,
            confidence |-> Min(900, Abs(keyword_score) * 100),
            method |-> "keyword_clear_signal",
            keyword_score |-> keyword_score]
      ELSE [decision |-> keyword_score > 0,
            confidence |-> 300,
            method |-> "conservative_reject",
            keyword_score |-> keyword_score]

\* the spec's rule: a keyword score of at least 2 accepts
hybrid_classification_threshold2(title, summary, api) ==
   LET claude_result == classify_text_advanced(title, summary, api)
       keyword_score == _calculate_keyword_score(title, summary)
   IN IF claude_result.confidence >= 800
      THEN [decision |-> claude_result.decision,
            confidence |-> claude_result.confidence,
            method |-> "claude_high_confidence",
            keyword_score |-> keyword_score]
      ELSE [decision |-> keyword_score >= 2,
            confidence |-> 300,
            method |-> "conservative_keyword",
            keyword_score |-> keyword_score]

\* self supplies classify_text_advanced and _calculate_keyword_score;
\* confidence in thousandths, keyword_score in points
hybrid_classification(title, summary, api) ==
   LET claude_result == classify_text_advanced(title, summary, api)
       keyword_score == _calculate_keyword_score(title, summary)
   IN IF claude_result.confidence >= 800
      THEN [decision |-> claude_result.decision,
            confidence |-> claude_result.confidence,
            method |-> "claude_high_confidence",
            keyword_score |-> keyword_score]
      ELSE IF Abs(keyword_score) >= 5
      THEN [decision |-> keyword_score > 0,
            confidence |-> Min(900, Abs(keyword_score) * 100),
            method |-> "keyword_clear_signal",
            keyword_score |-> keyword_score]
      ELSE [decision |-> FALSE,
            confidence |-> 300,
            method |-> "conservative_reject",
            keyword_score |-> keyword_score]

\* what hybrid_classification calls, in order: both calls are made before
\* the decision logic looks at anything
hybrid_classification_calls(title, summary) ==
   <<"classify_text_advanced", "_calculate_keyword_score">>

\* the confidence the keyword branch reports
keyword_confidence(keyword_score) == Min(900, Abs(keyword_score) * 100)

\* ------------------------------------------------------------ dedup store
\* the argument of the md5 digest, f"{title}{link}"; the digest itself is
\* taken as injective
generate_item_id(title, link) == title \o link

\* is_new_item that takes every item for a new one
is_new_item_always_new(sent, title, link) ==
   [ret |-> TRUE, sent_items |-> sent \cup {generate_item_id(title, link)}]

\* is_new_item that releases an identifier it finds recorded
is_new_item_releases(sent, title, link) ==
   LET item_id == generate_item_id(title, link)
   IN IF item_id \notin sent
      THEN [ret |-> TRUE, sent_items |-> sent \cup {item_id}]
      ELSE [ret |-> FALSE, sent_items |-> sent \ {item_id}]

\* is_new_item keeping only the latest identifier
is_new_item_keep_latest(sent, title, link) ==
   LET item_id == generate_item_id(title, link)
   IN [ret |-> item_id \notin sent, sent_items |-> {item_id}]

\* is_new_item that forgets to record the identifier
is_new_item_no_add(sent, title, link) ==
   [ret |-> generate_item_id(title, link) \notin sent, sent_items |-> sent]

\* `ret`: the bool returned; `sent_items`: self.sent_items after the call
is_new_item(sent, title, link) ==
   LET item_id == generate_item_id(title, link)
   IN IF item_id \notin sent
      THEN [ret |-> TRUE, sent_items |-> sent \cup {item_id}]
      ELSE [ret |-> FALSE, sent_items |-> sent]

\* the state file: absent, unparsable, or JSON holding 'sent_items'
NoFile == [kind |-> "missing", sent_items |-> {}]
CorruptFile == [kind |-> "corrupt", sent_items |-> {}]

UnreadableFile == [kind |-> "unreadable", sent_items |-> {}]

\* a parsed JSON value: [t |-> "str", v |-> characters], [t |-> "list",
\* v |-> values], [t |-> "dict", v |-> <<key, value>> pairs], [t |-> "num"],
\* [t |-> "null"]
K_sent_items == <<"s","e","n","t","_","i","t","e","m","s">>
K_last_update == <<"l","a","s","t","_","u","p","d","a","t","e">>
JStr(chars) == [t |-> "str", v |-> chars]
JList(values) == [t |-> "list", v |-> values]
JDict(pairs) == [t |-> "dict", v |-> pairs]
JNum == [t |-> "num"]
JNull == [t |-> "null"]

\* data.get(key, default) on a dict
dict_get(data, key, default) ==
   LET hits == {i \in DOMAIN data.v : data.v[i][1] = key}
   IN IF hits = {} THEN default
      ELSE data.v[CHOOSE i \in hits : \A j \in hits : j <= i][2]

\* set(value): `raised` on a value that is not iterable or holds an
\* unhashable element; a str iterates over its characters, a dict over its
\* keys. Strings are the only hashable elements the samples hold.
py_set(value) ==
   IF value.t = "list"
   THEN IF \E i \in DOMAIN value.v : value.v[i].t # "str"
        THEN [raised |-> TRUE, value |-> {}]
        ELSE [raised |-> FALSE, value |-> {value.v[i].v : i \in DOMAIN value.v}]
   ELSE IF value.t = "str"
   THEN [raised |-> FALSE, value |-> {<<value.v[i]>> : i \in DOMAIN value.v}]
   ELSE IF value.t = "dict"
   THEN [raised |-> FALSE, value |-> {value.v[i][1] : i \in DOMAIN value.v}]
   ELSE [raised |-> TRUE, value |-> {}]

\* kind "json": the file as save_state writes it, `sent_items` its list;
\* kind "parsed": another file json.load accepts, `data` what it returns
load_state(file) ==
   IF file.kind = "missing" THEN {}
   ELSE IF file.kind \in {"unreadable", "corrupt"} THEN {}
   ELSE IF file.kind = "json" THEN file.sent_items
   ELSE IF file.data.t # "dict" THEN {}
   ELSE LET s == py_set(dict_get(file.data, K_sent_items, JList(<<>>)))
        IN IF s.raised THEN {} ELSE s.value

\* open(..., 'w') may fail before truncating the file, json.dump may fail
\* after: both are caught and logged
SaveOutcomes == {"ok", "open_fails", "write_fails"}
save_state(file, sent, outcome) ==
   IF outcome = "ok" THEN [kind |-> "json", sent_items |-> sent]
   ELSE IF outcome = "open_fails" THEN file
   ELSE CorruptFile

\* ---------------------------------------------------------- notification
\* bot.send_message: accepted; a TelegramError about "parse entities",
\* with the plain-text retry accepted or failing; another TelegramError
\* (the function falls off its end and returns None); another exception
SendOutcomes ==
   {"ok", "parse_error_retry_ok", "parse_error_retry_fails",
    "telegram_error", "exception"}
send_telegram_message(outcome) == outcome \in {"ok", "parse_error_retry_ok"}

\* ----------------------------------------------------------- feed entries
Entry ==
   <<[title |-> T_Fossil, link |-> L_a, summary |-> T_Empty],
     [title |-> T_Covid, link |-> L_b, summary |-> T_Empty],
     [title |-> T_Bones, link |-> L_c, summary |-> T_Empty],
     [title |-> T_Bones, link |-> L_c, summary |-> T_fossil]>>
Entries == 1..Len(Entry)
ItemIds == [e \in Entries |-> generate_item_id(Entry[e].title, Entry[e].link)]
IdOf(e) == ItemIds[e]
Ids == {IdOf(e) : e \in Entries}
\* published_parsed: within the last day, older, or absent
Ages == {"fresh", "stale", "undated"}
PrefilterOf == [e \in Entries |-> prefilter_before_api(Entry[e].title, Entry[e].summary)]

\* what one pass of a feed loop does to one entry
Skip(sent) ==
   [sent_items |-> sent, dedup_skip |-> FALSE, prefiltered |-> FALSE,
    judged |-> FALSE, judge_raised |-> FALSE, judge_failed |-> FALSE,
    accepted |-> FALSE, items |-> <<>>]

\* a definite verdict of the judge: the reply is RELEVANT or IRRELEVANT
DefiniteVerdict(client, api) ==
   /\ client
   /\ api.kind = "reply"
   /\ upper(strip(api.text)) \in {R_RELEVANT, R_IRRELEVANT}

\* the judge outcomes a feed entry is run against, and what
\* classify_with_claude makes of each
FeedApiOutcomes ==
   {[kind |-> "reply", text |-> R_RELEVANT],
    [kind |-> "reply", text |-> R_IRRELEVANT],
    [kind |-> "reply", text |-> R_Maybe],
    [kind |-> "exception", text |-> T_Empty]}
JudgeOf ==
   [c \in BOOLEAN, e \in Entries, api \in FeedApiOutcomes |->
      classify_with_claude(c, Entry[e].title, Entry[e].summary, api)]
DefiniteOf ==
   [c \in BOOLEAN, api \in FeedApiOutcomes |-> DefiniteVerdict(c, api)]

\* fetch_rss_feed_optimized, the body of `for entry in feed.entries[:10]`
fetch_entry_optimized(sent, client, e, age, api, source) ==
   LET title == Entry[e].title
       link == Entry[e].link
       summary == Entry[e].summary
       chk1 == is_new_item(sent, title, link)
       prefilter_result == PrefilterOf[e]
       j == JudgeOf[client, e, api]
       chk2 == is_new_item(chk1.sent_items, title, link)
       checked == [Skip(chk1.sent_items) EXCEPT !.prefiltered = TRUE]
       \* lines 543-558: the second is_new_item, translation and append
       tail(r) ==
          IF chk2.ret
          THEN [r EXCEPT !.sent_items = chk2.sent_items,
                         !.items = <<[entry |-> e, source |-> source]>>]
          ELSE [r EXCEPT !.sent_items = chk2.sent_items]
   IN IF age = "stale" THEN Skip(sent)
      ELSE IF ~chk1.ret THEN [Skip(chk1.sent_items) EXCEPT !.dedup_skip = TRUE]
      ELSE IF prefilter_result = PyTrue
      THEN \* is_relevant = True; continue
           [checked EXCEPT !.accepted = TRUE]
      ELSE IF prefilter_result = PyFalse
      THEN tail(checked)
      ELSE LET judged == [checked EXCEPT !.judged = TRUE,
                                          !.judge_raised = j.raised,
                                          !.judge_failed = ~DefiniteOf[client, api]]
           IN IF j.raised THEN judged  \* except Exception: continue
              ELSE IF ~j.value THEN judged
              ELSE tail([judged EXCEPT !.accepted = TRUE])

\* fetch_rss_feed assigns neither api_calls_saved nor api_calls_made before
\* its `+= 1` on them: the statement raises UnboundLocalError
api_calls_bound == FALSE

\* fetch_rss_feed, the body of `for entry in feed.entries[:10]`
fetch_entry_legacy(sent, client, e, age, api, source) ==
   LET title == Entry[e].title
       link == Entry[e].link
       summary == Entry[e].summary
       prefilter_result == PrefilterOf[e]
       j == JudgeOf[client, e, api]
       chk == is_new_item(sent, title, link)
       checked == [Skip(sent) EXCEPT !.prefiltered = TRUE]
       tail(r) ==
          IF chk.ret
          THEN [r EXCEPT !.sent_items = chk.sent_items,
                         !.items = <<[entry |-> e, source |-> source]>>]
          ELSE [r EXCEPT !.sent_items = chk.sent_items]
   IN IF age = "stale" THEN Skip(sent)
      ELSE IF ~api_calls_bound
      THEN \* api_calls_saved += 1 / api_calls_made += 1 raise; except: continue
           checked
      ELSE IF prefilter_result = PyFalse THEN checked
      ELSE IF prefilter_result = PyTrue
      THEN tail([checked EXCEPT !.accepted = TRUE])
      ELSE LET judged == [checked EXCEPT !.judged = TRUE,
                                          !.judge_raised = j.raised,
                                          !.judge_failed = ~DefiniteOf[client, api]]
           IN IF j.raised \/ ~j.value THEN judged
              ELSE tail([judged EXCEPT !.accepted = TRUE])

\* scrape_esa_news and scrape_jaxa_news are not defined on the class: the
\* calls raise AttributeError, which check_all_sources_optimized logs
scrape_esa_news == [raised |-> TRUE, items |-> <<>>]
scrape_jaxa_news == [raised |-> TRUE, items |-> <<>>]

\* --------------------------------------------------- SmartTranslationCache
\* time is counted in days; a cache entry is [result, timestamp]
max_age_days == 30
KeyTextLimit == 200
SaveEvery == 10

EmptyCache == [k \in {} |-> k]

\* ' '.join(text.split()): in the stripped text every run of whitespace
\* becomes one space; characters lo..hi are done by halves, which keeps the
\* evaluation shallow on texts of hundreds of characters
RECURSIVE join_words(_, _, _)
join_words(s, lo, hi) ==
   IF lo > hi THEN <<>>
   ELSE IF lo = hi
   THEN IF s[lo] \in Whitespace
        THEN IF s[lo + 1] \in Whitespace THEN <<>> ELSE <<" ">>
        ELSE <<s[lo]>>
   ELSE LET mid == (lo + hi) \div 2
        IN join_words(s, lo, mid) \o join_words(s, mid + 1, hi)
join_split(text) ==
   LET stripped == strip(text)
   IN join_words(stripped, 1, Len(stripped))

\* the argument of the sha256 digest, f"{translation_type}:{text[:200]}";
\* the digest itself is taken as injective
_get_cache_key(text, translation_type) ==
   translation_type \o <<":">> \o SubSeq(text, 1, Min(KeyTextLimit, Len(text)))

_fallback_translation(text) == text

\* the cache file: absent, unpicklable, or a pickled dict
NoCacheFile == [kind |-> "missing", cache |-> EmptyCache]
CorruptCacheFile == [kind |-> "corrupt", cache |-> EmptyCache]

_load_cache(file, now) ==
   IF file.kind # "pickle" THEN EmptyCache
   ELSE LET cutoff_date == now - max_age_days
        IN [k \in {k \in DOMAIN file.cache : file.cache[k].timestamp > cutoff_date}
               |-> file.cache[k]]

\* open(..., 'wb') may fail before truncating the file, pickle.dump may
\* fail after: both are caught and logged
_save_cache(file, cache, outcome) ==
   IF outcome = "ok" THEN [kind |-> "pickle", cache |-> cache]
   ELSE IF outcome = "open_fails" THEN file
   ELSE CorruptCacheFile

\* translate_func: a translation, an empty result, or an exception
X_ko == <<"k","o">>
TranslateOutcomes ==
   {[kind |-> "result", text |-> X_ko], [kind |-> "result", text |-> <<>>],
    [kind |-> "raise", text |-> <<>>]}

\* get_or_translate looking at the daily budget before the cache
get_or_translate_start_limit_first(cache, daily_api_calls, limit, text, translation_type) ==
   LET cleaned_text == join_split(text)
       cache_key == _get_cache_key(cleaned_text, translation_type)
       at(how, ret) == [how |-> how, ret |-> ret, cleaned_text |-> cleaned_text,
                        cache_key |-> cache_key]
   IN IF text = <<>> \/ Len(strip(text)) < 3
      THEN at("empty", <<>>)
      ELSE IF daily_api_calls >= limit
      THEN at("over_limit", _fallback_translation(cleaned_text))
      ELSE IF cache_key \in DOMAIN cache
      THEN at("hit", cache[cache_key].result)
      ELSE at("await", <<>>)

\* get_or_translate with no daily budget
get_or_translate_start_no_limit(cache, daily_api_calls, limit, text, translation_type) ==
   LET cleaned_text == join_split(text)
       cache_key == _get_cache_key(cleaned_text, translation_type)
       at(how, ret) == [how |-> how, ret |-> ret, cleaned_text |-> cleaned_text,
                        cache_key |-> cache_key]
   IN IF text = <<>> \/ Len(strip(text)) < 3
      THEN at("empty", <<>>)
      ELSE IF cache_key \in DOMAIN cache
      THEN at("hit", cache[cache_key].result)
      ELSE at("await", <<>>)

\* get_or_translate up to `await translate_func(cleaned_text)`: `how` is
\* "empty", "hit" or "over_limit" when the call returns `ret` there, and
\* "await" when translate_func has been invoked
get_or_translate_start(cache, daily_api_calls, limit, text, translation_type) ==
   LET cleaned_text == join_split(text)
       cache_key == _get_cache_key(cleaned_text, translation_type)
       at(how, ret) == [how |-> how, ret |-> ret, cleaned_text |-> cleaned_text,
                        cache_key |-> cache_key]
   IN IF text = <<>> \/ Len(strip(text)) < 3
      THEN at("empty", <<>>)
      ELSE IF cache_key \in DOMAIN cache
      THEN at("hit", cache[cache_key].result)
      ELSE IF daily_api_calls >= limit
      THEN at("over_limit", _fallback_translation(cleaned_text))
      ELSE at("await", <<>>)

\* get_or_translate counting a failed call against the budget
get_or_translate_resume_counts_failures(cache, daily_api_calls, now, cleaned_text, cache_key, outcome) ==
   IF outcome.kind = "result" /\ outcome.text # <<>>
   THEN [cache |-> [k \in DOMAIN cache \cup {cache_key} |->
                       IF k = cache_key
                       THEN [result |-> outcome.text, timestamp |-> now]
                       ELSE cache[k]],
         daily_api_calls |-> daily_api_calls + 1,
         save |-> ((daily_api_calls + 1) % SaveEvery = 0),
         how |-> "api",
         ret |-> outcome.text]
   ELSE [cache |-> cache,
         daily_api_calls |-> daily_api_calls + 1,
         save |-> FALSE,
         how |-> "fallback",
         ret |-> _fallback_translation(cleaned_text)]

\* get_or_translate from the point translate_func answers with `outcome`:
\* `save` tells whether _save_cache is called
get_or_translate_resume(cache, daily_api_calls, now, cleaned_text, cache_key, outcome) ==
   IF outcome.kind = "result" /\ outcome.text # <<>>
   THEN [cache |-> [k \in DOMAIN cache \cup {cache_key} |->
                       IF k = cache_key
                       THEN [result |-> outcome.text, timestamp |-> now]
                       ELSE cache[k]],
         daily_api_calls |-> daily_api_calls + 1,
         save |-> ((daily_api_calls + 1) % SaveEvery = 0),
         how |-> "api",
         ret |-> outcome.text]
   ELSE [cache |-> cache,
         daily_api_calls |-> daily_api_calls,
         save |-> FALSE,
         how |-> "fallback",
         ret |-> _fallback_translation(cleaned_text)]

\* ------------------------------------------------------------------ state
VARIABLES
   sent_items,     \* self.sent_items
   state_file,     \* dinosaur_news_state.json
   claude_client,  \* whether self.claude_client is set
   phase,          \* "idle", "fetch" (the feed loop), "send" (the send loop)
   mode,           \* "optimized": check_all_sources_optimized; "legacy": check_all_sources
   feed_idx,       \* position in self.rss_feeds
   entry_idx,      \* entries of the current feed already handled
   new_entries,    \* new_entries of the current fetch_rss_feed* call
   all_items,      \* all_items, from the send loop's position on
   cycles,         \* polling cycles started
   restarts,       \* process restarts
   accepted,       \* entries classification accepted in the current cycle
   outbox,         \* send_telegram_message calls of the current cycle, with their result
   delivered,      \* id -> successful sends in this process
   delivered_before, \* ids delivered by earlier processes
   dup_classified, \* <<mode, entry>>: classified though its id was already in sent_items
   dedup_skipped,  \* ids stopped at is_new_item in this process
   judge_calls,    \* entry -> classify_with_claude calls in the current cycle
   judge_raised,   \* an exception left classify_with_claude
   judge_failed,   \* a judge call of the current cycle gave no definite verdict
   after_failure,  \* entries handled in the current cycle since such a call
   call,           \* the last direct call of a function, with what it returned
   cache,          \* SmartTranslationCache.cache
   cache_file,     \* translation_cache.pkl
   daily_api_calls, \* SmartTranslationCache.daily_api_calls
   now,            \* the wall clock, in days
   tasks,          \* get_or_translate coroutines: idle, or awaiting translate_func
   ticks,          \* date changes so far
   translate_calls, \* translate_func invocations since the cache object was built
   counted_today,  \* increments of daily_api_calls on the current date
   sm_pc,          \* start_monitoring's position
   job_added,      \* the interval job is in the scheduler's job store
   start_date,     \* the interval trigger's start date
   scheduler_running, \* self.scheduler.running
   next_run_time,  \* the job's next run time, once the scheduler has started
   instances,      \* executions of the job in progress, as its executor counts them
   clock,          \* the wall clock, in scheduling intervals
   scheduled_runs, \* executions of the job started so far
   skipped_runs    \* run times that found max_instances executions in progress

monitorVars ==
   <<sent_items, state_file, claude_client, phase, mode, feed_idx, entry_idx,
     new_entries, all_items, cycles, restarts>>
historyVars ==
   <<accepted, outbox, delivered, delivered_before, dup_classified,
     dedup_skipped, judge_calls, judge_raised, judge_failed, after_failure>>
cacheVars ==
   <<cache, cache_file, daily_api_calls, now, tasks, ticks, translate_calls,
     counted_today>>
schedVars ==
   <<sm_pc, job_added, start_date, scheduler_running, next_run_time, instances,
     clock, scheduled_runs, skipped_runs>>
vars == <<monitorVars, historyVars, call, cacheVars, schedVars>>

NoCall == [fn |-> "none"]

\* DinosaurNewsMonitor.__init__ on a first start: no state file yet
StartMonitor ==
   /\ state_file = NoFile
   /\ sent_items = load_state(NoFile)
   /\ claude_client \in BOOLEAN
   /\ phase = "idle"
   /\ mode = "optimized"
   /\ feed_idx = 1
   /\ entry_idx = 0
   /\ new_entries = <<>>
   /\ all_items = <<>>
   /\ cycles = 0
   /\ restarts = 0
   /\ accepted = {}
   /\ outbox = <<>>
   /\ delivered = [i \in Ids |-> 0]
   /\ delivered_before = {}
   /\ dup_classified = {}
   /\ dedup_skipped = {}
   /\ judge_calls = [e \in Entries |-> 0]
   /\ judge_raised = FALSE
   /\ judge_failed = FALSE
   /\ after_failure = 0
   /\ call = NoCall

NoTask == [pc |-> "idle"]

\* SmartTranslationCache.__init__ with `file` at self.cache_file
StartCache(file) ==
   /\ cache_file = file
   /\ now = 0
   /\ cache = _load_cache(file, 0)
   /\ daily_api_calls = 0
   /\ tasks = [t \in 1..MaxTasks |-> NoTask]
   /\ ticks = 0
   /\ translate_calls = 0
   /\ counted_today = 0

\* start_monitoring has not run yet: the scheduler built by __init__ holds
\* no job and is not running
StartScheduler ==
   /\ sm_pc = "add_job"
   /\ job_added = FALSE
   /\ start_date = 0
   /\ scheduler_running = FALSE
   /\ next_run_time = 0
   /\ instances = 0
   /\ clock = 0
   /\ scheduled_runs = 0
   /\ skipped_runs = 0

\* main builds a DinosaurNewsMonitor; a translation cache is built with no
\* cache file yet
Init == StartMonitor /\ StartCache(NoCacheFile) /\ StartScheduler

\* ---------------------------------------------------------- polling cycle
\* check_all_sources_optimized (scheduled by start_monitoring) or
\* check_all_sources is entered
BeginCycle(m) ==
   /\ phase = "idle"
   /\ cycles < MaxCycles
   /\ phase' = "fetch"
   /\ mode' = m
   /\ feed_idx' = 1
   /\ entry_idx' = 0
   /\ new_entries' = <<>>
   /\ all_items' = <<>>
   /\ cycles' = cycles + 1
   /\ accepted' = {}
   /\ outbox' = <<>>
   /\ judge_calls' = [e \in Entries |-> 0]
   /\ judge_failed' = FALSE
   /\ after_failure' = 0
   /\ UNCHANGED <<sent_items, state_file, claude_client, restarts, delivered,
                  delivered_before, dup_classified, dedup_skipped, judge_raised, call>>
   /\ UNCHANGED cacheVars
   /\ UNCHANGED schedVars

\* the feed loop moves on with `items` the list the fetch returned; after
\* the last feed come the two scrape calls and then the send loop
AfterFeed(items) ==
   /\ all_items' =
         IF feed_idx < NumFeeds THEN all_items \o items
         ELSE IF mode = "optimized"
         THEN all_items \o items \o scrape_esa_news.items \o scrape_jaxa_news.items
         ELSE all_items \o items
   /\ phase' = IF feed_idx < NumFeeds THEN "fetch" ELSE "send"
   /\ feed_idx' = IF feed_idx < NumFeeds THEN feed_idx + 1 ELSE feed_idx
   /\ entry_idx' = 0
   /\ new_entries' = <<>>

\* a feed that cannot be fetched ending the cycle on the spot
FeedUnavailable_aborts ==
   /\ phase = "fetch"
   /\ entry_idx = 0
   /\ phase' = "idle"
   /\ UNCHANGED <<sent_items, state_file, claude_client, mode, feed_idx, entry_idx,
                  new_entries, all_items, cycles, restarts, historyVars, call>>
   /\ UNCHANGED cacheVars
   /\ UNCHANGED schedVars

\* session.get fails or answers with a status other than 200: the fetch
\* returns []
FeedUnavailable ==
   /\ phase = "fetch"
   /\ entry_idx = 0
   /\ AfterFeed(<<>>)
   /\ UNCHANGED <<sent_items, state_file, claude_client, mode, cycles, restarts,
                  historyVars, call>>
   /\ UNCHANGED cacheVars
   /\ UNCHANGED schedVars

\* one pass of `for entry in feed.entries[:10]`
ProcessEntry(e, age, api) ==
   /\ phase = "fetch"
   /\ entry_idx < MaxFeedLen
   /\ entry_idx < EntriesPerFeed
   /\ LET r == IF mode = "optimized"
               THEN fetch_entry_optimized(sent_items, claude_client, e, age, api, feed_idx)
               ELSE fetch_entry_legacy(sent_items, claude_client, e, age, api, feed_idx)
      IN /\ sent_items' = r.sent_items
         /\ new_entries' = new_entries \o r.items
         /\ accepted' = IF r.accepted THEN accepted \cup {e} ELSE accepted
         /\ dup_classified' =
               IF IdOf(e) \in sent_items /\ (r.prefiltered \/ r.judged)
               THEN dup_classified \cup {<<mode, e>>}
               ELSE dup_classified
         /\ dedup_skipped' =
               IF r.dedup_skip THEN dedup_skipped \cup {IdOf(e)} ELSE dedup_skipped
         /\ judge_calls' =
               IF r.judged THEN [judge_calls EXCEPT ![e] = @ + 1] ELSE judge_calls
         /\ judge_raised' = (judge_raised \/ r.judge_raised)
         /\ judge_failed' = (judge_failed \/ r.judge_failed)
         /\ after_failure' = IF judge_failed THEN after_failure + 1 ELSE 0
   /\ entry_idx' = entry_idx + 1
   /\ UNCHANGED <<state_file, claude_client, phase, mode, feed_idx, all_items,
                  cycles, restarts, outbox, delivered, delivered_before, call>>
   /\ UNCHANGED cacheVars
   /\ UNCHANGED schedVars

\* the feed has no further entry: the fetch returns new_entries
EndFeed ==
   /\ phase = "fetch"
   /\ AfterFeed(new_entries)
   /\ UNCHANGED <<sent_items, state_file, claude_client, mode, cycles, restarts,
                  historyVars, call>>
   /\ UNCHANGED cacheVars
   /\ UNCHANGED schedVars

\* the send loop: one message, or, the list exhausted, save_state
SendStep ==
   /\ phase = "send"
   /\ IF all_items # <<>>
      THEN \E outcome \in SendOutcomes :
              LET item == Head(all_items)
                  ok == send_telegram_message(outcome)
              IN /\ outbox' = Append(outbox, [entry |-> item.entry, ok |-> ok])
                 /\ delivered' =
                       IF ok THEN [delivered EXCEPT ![IdOf(item.entry)] = @ + 1]
                       ELSE delivered
                 /\ all_items' = Tail(all_items)
                 /\ UNCHANGED <<state_file, phase>>
      ELSE \E outcome \in SaveOutcomes :
              /\ state_file' = save_state(state_file, sent_items, outcome)
              /\ phase' = "idle"
              /\ UNCHANGED <<outbox, delivered, all_items>>
   /\ UNCHANGED <<sent_items, claude_client, mode, feed_idx, entry_idx, new_entries,
                  cycles, restarts, accepted, delivered_before, dup_classified,
                  dedup_skipped, judge_calls, judge_raised, judge_failed,
                  after_failure, call>>
   /\ UNCHANGED cacheVars
   /\ UNCHANGED schedVars

\* the process dies at any point and is started again: __init__ reloads
\* sent_items from the state file
Restart ==
   /\ restarts < MaxRestarts
   /\ restarts' = restarts + 1
   /\ sent_items' = load_state(state_file)
   /\ claude_client' \in BOOLEAN
   /\ phase' = "idle"
   /\ mode' = "optimized"
   /\ feed_idx' = 1
   /\ entry_idx' = 0
   /\ new_entries' = <<>>
   /\ all_items' = <<>>
   /\ accepted' = {}
   /\ outbox' = <<>>
   /\ delivered_before' = delivered_before \cup {i \in Ids : delivered[i] > 0}
   /\ delivered' = [i \in Ids |-> 0]
   /\ dup_classified' = {}
   /\ dedup_skipped' = {}
   /\ judge_calls' = [e \in Entries |-> 0]
   /\ judge_raised' = FALSE
   /\ judge_failed' = FALSE
   /\ after_failure' = 0
   /\ UNCHANGED <<state_file, cycles, call>>
   /\ UNCHANGED cacheVars
   /\ UNCHANGED schedVars

\* the judge's outcome is drawn only for an entry that reaches the judge
\* (classify_with_claude is reached or not whatever it would answer)
JudgeOutcomesFor(e, age) ==
   LET any == CHOOSE a \in FeedApiOutcomes : TRUE
       r == IF mode = "optimized"
            THEN fetch_entry_optimized(sent_items, claude_client, e, age, any, feed_idx)
            ELSE fetch_entry_legacy(sent_items, claude_client, e, age, any, feed_idx)
   IN IF r.judged THEN FeedApiOutcomes ELSE {any}

Next ==
   \/ \E m \in {"optimized", "legacy"} : BeginCycle(m)
   \/ FeedUnavailable
   \/ \E e \in Entries, age \in Ages :
         \E api \in JudgeOutcomesFor(e, age) : ProcessEntry(e, age, api)
   \/ EndFeed
   \/ SendStep
   \/ Restart

Spec == Init /\ [][Next]_vars

\* ------------------------------------------- classification calls
Titles ==
   {T_Fossil, T_Covid, T_Bones, T_CovidFossil, T_RFK, T_fos, T_mars,
    T_Triassic, T_DinoCancer, T_Rocket, T_JurassicDino, T_NasaRover,
    T_CancerRocket, T_AncientBones}
Summaries == {T_Empty, T_sil, T_rover, T_fossil}

CallPrefilter(title, summary) ==
   /\ call = NoCall
   /\ call' = [fn |-> "prefilter_before_api", title |-> title, summary |-> summary,
               ret |-> prefilter_before_api(title, summary)]
   /\ UNCHANGED <<monitorVars, historyVars>>
   /\ UNCHANGED cacheVars
   /\ UNCHANGED schedVars

CallClassifyWithClaude(title, summary, api) ==
   /\ call = NoCall
   /\ call' = [fn |-> "classify_with_claude", title |-> title, summary |-> summary,
               api |-> api,
               ret |-> classify_with_claude(claude_client, title, summary, api)]
   /\ UNCHANGED <<monitorVars, historyVars>>
   /\ UNCHANGED cacheVars
   /\ UNCHANGED schedVars

\* titles _calculate_keyword_score is called with
T_MesozoicDig ==
   <<"M","e","s","o","z","o","i","c"," ","d","i","n","o","s","a","u","r"," ","f","o","s","s","i","l",","," ","s","a","y","s"," ","p","a","l","e","o","n","t","o","l","o","g","y"," ","t","e","a","m">>
T_CancerPolitics ==
   <<"C","a","n","c","e","r",","," ","r","o","c","k","e","t"," ","a","n","d"," ","p","o","l","i","t","i","c","s">>
ScoreTitles == {T_Empty, T_JurassicDino, T_DinoCancer, T_MesozoicDig, T_CancerPolitics}

CallCalculateKeywordScore(title, summary) ==
   /\ call = NoCall
   /\ call' = [fn |-> "_calculate_keyword_score", title |-> title,
               summary |-> summary,
               ret |-> _calculate_keyword_score(title, summary)]
   /\ UNCHANGED <<monitorVars, historyVars>>
   /\ UNCHANGED cacheVars
   /\ UNCHANGED schedVars

\* summaries is_dinosaur_news_with_api is called with: none, and one that
\* holds a discovery keyword
KeywordSummaries == {T_Empty, T_fossil}

CallIsDinosaurNewsWithApi(title, summary, api) ==
   /\ call = NoCall
   /\ call' = [fn |-> "is_dinosaur_news_with_api", title |-> title,
               summary |-> summary, api |-> api, client |-> claude_client,
               ret |-> is_dinosaur_news_with_api(claude_client, title, summary, api)]
   /\ UNCHANGED <<monitorVars, historyVars>>
   /\ UNCHANGED cacheVars
   /\ UNCHANGED schedVars

CallClassifyWithPrefilter(title, summary, api) ==
   /\ call = NoCall
   /\ call' = [fn |-> "classify_with_prefilter", title |-> title, summary |-> summary,
               api |-> api,
               ret |-> classify_with_prefilter(claude_client, title, summary, api)]
   /\ UNCHANGED <<monitorVars, historyVars>>
   /\ UNCHANGED cacheVars
   /\ UNCHANGED schedVars

CallClassifyTextAdvanced(title, summary, api) ==
   /\ call = NoCall
   /\ call' = [fn |-> "classify_text_advanced", title |-> title, summary |-> summary,
               api |-> api,
               ret |-> classify_text_advanced(title, summary, api)]
   /\ UNCHANGED <<monitorVars, historyVars>>
   /\ UNCHANGED cacheVars
   /\ UNCHANGED schedVars

CallHybridClassification(title, summary, api) ==
   /\ call = NoCall
   /\ call' = [fn |-> "hybrid_classification", title |-> title, summary |-> summary,
               api |-> api,
               ret |-> hybrid_classification(title, summary, api),
               calls |-> hybrid_classification_calls(title, summary)]
   /\ UNCHANGED <<monitorVars, historyVars>>
   /\ UNCHANGED cacheVars
   /\ UNCHANGED schedVars

\* one pass of the loop of fetch_rss_feed_optimized, called on the object
CallFeedEntry(e, age, api) ==
   /\ call = NoCall
   /\ phase = "idle"
   /\ LET r == fetch_entry_optimized(sent_items, claude_client, e, age, api, 1)
      IN /\ call' = [fn |-> "fetch_rss_feed_optimized", entry |-> e, age |-> age,
                     api |-> api, seen |-> (IdOf(e) \in sent_items), ret |-> r]
         /\ sent_items' = r.sent_items
   /\ UNCHANGED <<state_file, claude_client, phase, mode, feed_idx, entry_idx,
                  new_entries, all_items, cycles, restarts, historyVars>>
   /\ UNCHANGED cacheVars
   /\ UNCHANGED schedVars

\* the publication time of an entry: none, or so many hours before now.
\* published_parsed is in UTC; datetime.now() is the host's local wall
\* clock without a time zone, UTC + utc_offset hours.
freshness_hours == 24
Undated == [dated |-> FALSE, hours_ago |-> 0]
Published(h) == [dated |-> TRUE, hours_ago |-> h]
PublicationTimes == {Undated, Published(1), Published(20), Published(26), Published(40)}
UtcOffsets == {0 - 5, 0, 9}

\* datetime.now() - pub_date > timedelta(days=1)
too_old(hours_ago, utc_offset) == hours_ago + utc_offset > freshness_hours
\* what lines 513-517 make of a publication time
age_of(published, utc_offset) ==
   IF ~published.dated THEN "undated"
   ELSE IF too_old(published.hours_ago, utc_offset) THEN "stale"
   ELSE "fresh"

\* one pass of the loop of fetch_rss_feed_optimized on entry e, published
\* at `published`, on a host at UTC + utc_offset
CallDatedEntry(e, published, utc_offset, api) ==
   /\ call = NoCall
   /\ phase = "idle"
   /\ LET r == fetch_entry_optimized(sent_items, claude_client, e,
                                     age_of(published, utc_offset), api, 1)
      IN /\ call' = [fn |-> "fetch_rss_feed_optimized:dated", entry |-> e,
                     published |-> published, utc_offset |-> utc_offset,
                     api |-> api, client |-> claude_client, before |-> sent_items,
                     ret |-> r]
         /\ sent_items' = r.sent_items
   /\ UNCHANGED <<state_file, claude_client, phase, mode, feed_idx, entry_idx,
                  new_entries, all_items, cycles, restarts, historyVars>>
   /\ UNCHANGED cacheVars
   /\ UNCHANGED schedVars

\* titles, links and seen sets is_new_item is called with
X_a == <<"a">>
X_abt == <<"a","b">>
X_c == <<"c">>
X_bc == <<"b","c">>
IdTitles == {X_a, X_abt}
IdLinks == {X_c, X_bc}
SeenSets == SUBSET {generate_item_id(t, l) : t \in IdTitles, l \in IdLinks}

\* is_new_item(title, link) with self.sent_items = sent, followed at once
\* by the same call again
CallIsNewItem(sent, title, link) ==
   /\ call = NoCall
   /\ call' = [fn |-> "is_new_item", before |-> sent, title |-> title, link |-> link,
               ret |-> is_new_item(sent, title, link),
               again |-> is_new_item(is_new_item(sent, title, link).sent_items,
                                     title, link)]
   /\ UNCHANGED <<monitorVars, historyVars>>
   /\ UNCHANGED cacheVars
   /\ UNCHANGED schedVars

\* state files load_state may meet: none, unreadable, not JSON, written by
\* save_state, and JSON of other shapes
ParsedFiles ==
   {[kind |-> "parsed", data |-> d] : d \in
      {JList(<<>>),
       JStr(<<"a">>),
       JNull,
       JDict(<<<<K_last_update, JStr(<<"x">>)>>>>),
       JDict(<<<<K_sent_items, JStr(<<"a", "b">>)>>>>),
       JDict(<<<<K_sent_items, JNum>>>>),
       JDict(<<<<K_sent_items, JNull>>>>),
       JDict(<<<<K_sent_items, JList(<<JList(<<JStr(<<"a">>)>>)>>)>>>>),
       JDict(<<<<K_sent_items, JDict(<<<<L_a, JNull>>>>)>>>>),
       JDict(<<<<K_sent_items, JList(<<JStr(ItemIds[1]), JStr(ItemIds[2])>>)>>,
               <<K_last_update, JStr(<<"x">>)>>>>)}}
StateFiles ==
   {NoFile, CorruptFile, UnreadableFile}
      \cup {save_state(NoFile, S, o) : S \in SUBSET {ItemIds[1], ItemIds[2]}, o \in SaveOutcomes}
      \cup ParsedFiles

\* load_state called with `file` at self.state_file
CallLoadState(file) ==
   /\ call = NoCall
   /\ call' = [fn |-> "load_state", file |-> file, ret |-> load_state(file)]
   /\ UNCHANGED <<monitorVars, historyVars>>
   /\ UNCHANGED cacheVars
   /\ UNCHANGED schedVars

\* ------------------------------------------------------------ translation
\* A Hangul syllable is one character of the text; it is written "#" and
\* its romanisation, TLC strings being ASCII.
\* self.translation_patterns, in insertion order: each regular expression
\* \bword(?:suffix|...)?\b as the literals it matches, in the order the
\* matcher tries them, with its replacement
translation_patterns ==
   <<
     [alts |-> <<<<"t","y","r","a","n","n","o","s","a","u","r","u","s">>>>,
      repl |-> <<"#ti","#ra","#no","#sa","#u","#ru","#seu">>],
     [alts |-> <<<<"t","r","i","c","e","r","a","t","o","p","s">>>>,
      repl |-> <<"#teu","#ri","#ke","#ra","#top","#seu">>],
     [alts |-> <<<<"s","t","e","g","o","s","a","u","r","u","s">>>>,
      repl |-> <<"#seu","#te","#go","#sa","#u","#ru","#seu">>],
     [alts |-> <<<<"v","e","l","o","c","i","r","a","p","t","o","r">>>>,
      repl |-> <<"#bel","#lo","#ki","#rap","#to","#reu">>],
     [alts |-> <<<<"b","r","a","c","h","i","o","s","a","u","r","u","s">>>>,
      repl |-> <<"#beu","#ra","#ki","#o","#sa","#u","#ru","#seu">>],
     [alts |-> <<<<"c","r","e","t","a","c","e","o","u","s">>>>,
      repl |-> <<"#baek","#ak","#gi">>],
     [alts |-> <<<<"j","u","r","a","s","s","i","c">>>>,
      repl |-> <<"#jwi","#ra","#gi">>],
     [alts |-> <<<<"t","r","i","a","s","s","i","c">>>>,
      repl |-> <<"#teu","#ra","#i","#a","#seu","#gi">>],
     [alts |-> <<<<"m","e","s","o","z","o","i","c">>>>,
      repl |-> <<"#jung","#saeng","#dae">>],
     [alts |-> <<<<"f","o","s","s","i","l","s">>, <<"f","o","s","s","i","l">>>>,
      repl |-> <<"#hwa","#seok">>],
     [alts |-> <<<<"d","i","n","o","s","a","u","r","s">>, <<"d","i","n","o","s","a","u","r">>>>,
      repl |-> <<"#gong","#ryong">>],
     [alts |-> <<<<"p","a","l","e","o","n","t","o","l","o","g","y">>>>,
      repl |-> <<"#go","#saeng","#mul","#hak">>],
     [alts |-> <<<<"p","a","l","e","o","n","t","o","l","o","g","i","s","t","s">>, <<"p","a","l","e","o","n","t","o","l","o","g","i","s","t">>>>,
      repl |-> <<"#go","#saeng","#mul","#hak","#ja">>],
     [alts |-> <<<<"e","x","t","i","n","c","t","i","o","n">>, <<"e","x","t","i","n","c","t">>>>,
      repl |-> <<"#myeol","#jong">>],
     [alts |-> <<<<"e","v","o","l","u","t","i","o","n","a","r","y">>, <<"e","v","o","l","u","t","i","o","n">>>>,
      repl |-> <<"#jin","#hwa">>],
     [alts |-> <<<<"s","p","e","c","i","e","s">>>>,
      repl |-> <<"#jong">>],
     [alts |-> <<<<"s","k","e","l","e","t","o","n">>>>,
      repl |-> <<"#gol","#gyeok">>],
     [alts |-> <<<<"b","o","n","e","s">>, <<"b","o","n","e">>>>,
      repl |-> <<"#ppyeo">>],
     [alts |-> <<<<"d","i","s","c","o","v","e","r","e","d">>, <<"d","i","s","c","o","v","e","r","y">>, <<"d","i","s","c","o","v","e","r">>>>,
      repl |-> <<"#bal","#gyeon">>],
     [alts |-> <<<<"f","o","u","n","d">>>>,
      repl |-> <<"#bal","#gyeon","#doen">>],
     [alts |-> <<<<"a","n","n","o","u","n","c","e","d">>, <<"a","n","n","o","u","n","c","e">>>>,
      repl |-> <<"#bal","#pyo">>],
     [alts |-> <<<<"r","e","v","e","a","l","e","d">>, <<"r","e","v","e","a","l">>>>,
      repl |-> <<"#gong","#gae">>],
     [alts |-> <<<<"s","t","u","d","y">>>>,
      repl |-> <<"#yeon","#gu">>]
   >>

\* characters that are not \w
NonWord == Whitespace \cup {"-", ":", ",", ".", "'", "!", "?"}
IsWordAt(text, p) == p >= 1 /\ p <= Len(text) /\ text[p] \notin NonWord
\* \b before position p
Boundary(text, p) == IsWordAt(text, p - 1) # IsWordAt(text, p)

\* the literal lit matches at position i, ignoring case, between two \b
MatchesAt(lit, text, i) ==
   /\ i + Len(lit) - 1 <= Len(text)
   /\ \A j \in 1..Len(lit) : lower_char(text[i + j - 1]) = lit[j]
   /\ Boundary(text, i)
   /\ Boundary(text, i + Len(lit))

\* length of the match of a pattern at position i, 0 if there is none
RECURSIVE MatchLen(_, _, _, _)
MatchLen(alts, text, i, k) ==
   IF k > Len(alts) THEN 0
   ELSE IF MatchesAt(alts[k], text, i) THEN Len(alts[k])
   ELSE MatchLen(alts, text, i, k + 1)

\* re.sub(pattern, replacement, text, flags=re.IGNORECASE) from position i
RECURSIVE re_sub(_, _, _)
re_sub(pat, text, i) ==
   IF i > Len(text) THEN <<>>
   ELSE LET m == MatchLen(pat.alts, text, i, 1)
        IN IF m > 0 THEN pat.repl \o re_sub(pat, text, i + m)
           ELSE <<text[i]>> \o re_sub(pat, text, i + 1)

RECURSIVE apply_patterns(_, _)
apply_patterns(text, k) ==
   IF k > Len(translation_patterns) THEN text
   ELSE apply_patterns(re_sub(translation_patterns[k], text, 1), k + 1)

\* fallback_translate(text)
fallback_translate(text) ==
   IF text = <<>> THEN <<>> ELSE apply_patterns(text, 1)

\* the refusal the translator's reply is searched for
CannotTranslate == <<"#beon","#yeok","#hal"," ","#su"," ","#eops","#seup","#ni","#da">>
TranslateTextLimit == 200
MinTranslationLen == 3

\* what messages.create does for a translation request: a reply with a text,
\* a reply without content, or an exception
Tr_Short == <<"#gong","#ryong">>
Tr_Three == <<"#hwa","#seok","#jong">>
Tr_Four == <<"#gong","#ryong"," ","#ppyeo">>
Tr_Padded == <<" ","#gong","#ryong","\n">>
Tr_PaddedLong == <<" ","#gong","#ryong"," ","#hwa","#seok","\n">>
Tr_RefusalLong == <<"#i"," ","#mun","#jang","#eun"," ","#beon","#yeok","#hal"," ","#su"," ","#eops","#seup","#ni","#da",".">>
TranslationReplies ==
   {T_Empty, Tr_Short, Tr_Three, Tr_Four, Tr_Padded, Tr_PaddedLong,
    CannotTranslate, Tr_RefusalLong}
TranslationOutcomes ==
   {[kind |-> "result", text |-> t] : t \in TranslationReplies}
      \cup {[kind |-> k, text |-> T_Empty] : k \in {"no_content", "exception"}}

\* translate_with_claude without the search for the refusal
translate_with_claude_no_refusal(client, text, outcome) ==
   IF ~client \/ text = <<>> THEN [raised |-> FALSE, ret |-> <<>>, remote_calls |-> 0]
   ELSE IF outcome.kind # "result"
   THEN [raised |-> FALSE, ret |-> <<>>, remote_calls |-> 1]
   ELSE LET translated == strip(outcome.text)
        IN [raised |-> FALSE,
            ret |-> IF translated # <<>> /\ Len(translated) > MinTranslationLen
                    THEN translated ELSE <<>>,
            remote_calls |-> 1]

\* translate_with_claude(text) with claude_client = client, when
\* messages.create does `outcome`; text_to_translate is what it is sent
text_to_translate(text) ==
   IF Len(text) > TranslateTextLimit THEN SubSeq(text, 1, TranslateTextLimit) ELSE text
translate_with_claude(client, text, outcome) ==
   IF ~client \/ text = <<>> THEN [raised |-> FALSE, ret |-> <<>>, remote_calls |-> 0]
   ELSE IF outcome.kind # "result"
   THEN [raised |-> FALSE, ret |-> <<>>, remote_calls |-> 1]
   ELSE LET translated == strip(outcome.text)
        IN [raised |-> FALSE,
            ret |-> IF /\ translated # <<>>
                       /\ Len(translated) > MinTranslationLen
                       /\ ~IsSubstring(CannotTranslate, translated)
                    THEN translated ELSE <<>>,
            remote_calls |-> 1]

\* enhanced_translate(text)
enhanced_translate(client, text, outcome) ==
   IF text = <<>> THEN [raised |-> FALSE, ret |-> <<>>, remote_calls |-> 0]
   ELSE IF client
   THEN LET r == translate_with_claude(client, text, outcome)
        IN IF r.ret # <<>> THEN r
           ELSE [raised |-> FALSE, ret |-> fallback_translate(text),
                 remote_calls |-> r.remote_calls]
   ELSE [raised |-> FALSE, ret |-> fallback_translate(text), remote_calls |-> 0]

T_Space == <<" ">>
T_FossilsFound == <<"F","o","s","s","i","l","s"," ","f","o","u","n","d",":"," ","B","O","N","E","S">>
T_Fossilized == <<"f","o","s","s","i","l","i","z","e","d">>
TranslateTexts ==
   {T_Empty, T_Space, T_Fossil, T_Covid, T_Triassic, T_FossilsFound, T_Fossilized}

\* enhanced_translate called on `text` while messages.create does `outcome`
CallEnhancedTranslate(text, outcome) ==
   /\ call = NoCall
   /\ call' = [fn |-> "enhanced_translate", client |-> claude_client, text |-> text,
               outcome |-> outcome,
               ret |-> enhanced_translate(claude_client, text, outcome)]
   /\ UNCHANGED <<monitorVars, historyVars>>
   /\ UNCHANGED cacheVars
   /\ UNCHANGED schedVars

\* ------------------------------------------------------------------ main
\* an environment variable: unset (os.getenv gives None) or set to a text
EnvUnset == [set |-> FALSE, value |-> <<>>]
EnvSet(v) == [set |-> TRUE, value |-> v]
\* `not x` for what os.getenv returned
py_not(env) == ~env.set \/ env.value = <<>>

Digits == {"0","1","2","3","4","5","6","7","8","9"}
\* the digits of int(text)'s argument, once trimmed and without its sign
int_digits(text) ==
   LET t == strip(text)
   IN IF t # <<>> /\ t[1] \in {"+", "-"} THEN Tail(t) ELSE t
\* int(text) does not raise ValueError
is_int(text) ==
   LET d == int_digits(text)
   IN d # <<>> /\ \A i \in 1..Len(d) : d[i] \in Digits
\* int(text) > 0
int_positive(text) ==
   /\ strip(text)[1] # "-"
   /\ \E i \in 1..Len(int_digits(text)) : int_digits(text)[i] # "0"
startswith(text, prefix) ==
   Len(text) >= Len(prefix) /\ SubSeq(text, 1, Len(prefix)) = prefix

\* validate_channel_id(channel_id), for the text of a set variable
validate_channel_id(channel_id) ==
   IF channel_id = <<>> THEN [raised |-> TRUE, value |-> channel_id]
   ELSE IF startswith(channel_id, <<"@">>) THEN [raised |-> FALSE, value |-> channel_id]
   ELSE IF ~is_int(channel_id) THEN [raised |-> TRUE, value |-> channel_id]
   ELSE IF int_positive(channel_id) THEN [raised |-> TRUE, value |-> channel_id]
   ELSE [raised |-> FALSE, value |-> channel_id]

\* test_telegram_connection: get_me, get_chat and the test message succeed,
\* or get_me fails, or get_chat or the test message fails
ConnectionOutcomes == {"ok", "bot_fails", "channel_fails"}
test_telegram_connection(outcome) == outcome = "ok"

\* the settings main's output names
N_TOKEN == "TELEGRAM_BOT_TOKEN"
N_CHANNEL == "TELEGRAM_CHANNEL_ID"
N_CLAUDE == "CLAUDE_API_KEY"
RequiredSettings == {N_TOKEN, N_CHANNEL}

\* main() with TELEGRAM_BOT_TOKEN and TELEGRAM_CHANNEL_ID as given and the
\* connection test ending in `connection`. `named` is the set of settings
\* its output names; `raised` is whether an exception leaves main (the
\* finally clause reads `monitor`, which is unbound when the constructor
\* raised).
main(bot_token, channel_id, connection) ==
   IF py_not(bot_token) \/ py_not(channel_id)
   THEN [outcome |-> "settings_needed", named |-> {N_TOKEN, N_CHANNEL, N_CLAUDE},
         connection_tested |-> FALSE, cycle_started |-> FALSE, raised |-> FALSE]
   ELSE IF validate_channel_id(channel_id.value).raised
   THEN [outcome |-> "constructor_raised", named |-> {},
         connection_tested |-> FALSE, cycle_started |-> FALSE, raised |-> TRUE]
   ELSE IF ~test_telegram_connection(connection)
   THEN [outcome |-> "connection_failed",
         named |-> IF connection = "bot_fails" THEN {N_TOKEN} ELSE {},
         connection_tested |-> TRUE, cycle_started |-> FALSE, raised |-> FALSE]
   ELSE [outcome |-> "monitoring", named |-> {},
         connection_tested |-> TRUE, cycle_started |-> TRUE, raised |-> FALSE]

Tokens == {EnvUnset, EnvSet(<<>>), EnvSet(<<"t">>)}
ChannelIds ==
   {EnvUnset, EnvSet(<<>>)}
      \cup {EnvSet(v) : v \in {<<"@","d","i","n","o">>, <<"-","1","0","0","1">>, <<"-","5">>, <<"0">>, <<"4","2">>, <<"+","7">>, <<"a","b","c">>, <<" ","-","1","0","0","2"," ">>, <<"-">>}}

\* main called in an environment with these settings
CallMain(bot_token, channel_id, connection) ==
   /\ call = NoCall
   /\ call' = [fn |-> "main", bot_token |-> bot_token, channel_id |-> channel_id,
               connection |-> connection,
               ret |-> main(bot_token, channel_id, connection)]
   /\ UNCHANGED <<monitorVars, historyVars>>
   /\ UNCHANGED cacheVars
   /\ UNCHANGED schedVars

\* ------------------------------------------------------- APIUsageMonitor
K_daily_calls == <<"d","a","i","l","y","_","c","a","l","l","s">>
K_date == <<"d","a","t","e">>
K_monthly_cost == <<"m","o","n","t","h","l","y","_","c","o","s","t">>
\* a JSON number with its value; costs are counted in millionths of a dollar
JInt(n) == [t |-> "num", v |-> n]
cost_per_token == 800
D_1 == <<"d","1">>
D_2 == <<"d","2">>

dict_has(data, key) == \E i \in DOMAIN data.v : data.v[i][1] = key
usage(daily_calls, date, monthly_cost) ==
   JDict(<<<<K_daily_calls, daily_calls>>, <<K_date, date>>,
           <<K_monthly_cost, monthly_cost>>>>)

\* api_usage.json: absent, unreadable, not JSON, or `data` as json.load
\* returns it
NoUsageFile == [kind |-> "missing"]
UnreadableUsageFile == [kind |-> "unreadable"]
CorruptUsageFile == [kind |-> "corrupt"]
ParsedUsageFile(data) == [kind |-> "parsed", data |-> data]

\* _load_usage_data() on the date `today`
_load_usage_data(file, today) ==
   IF file.kind = "parsed" THEN file.data
   ELSE usage(JInt(0), JStr(today), JInt(0))

\* _save_usage_data(): open or json.dump may raise, and nothing catches it
_save_usage_data(file, usage_data, outcome) ==
   IF outcome = "ok" THEN [raised |-> FALSE, file |-> ParsedUsageFile(usage_data)]
   ELSE IF outcome = "open_fails" THEN [raised |-> TRUE, file |-> file]
   ELSE [raised |-> TRUE, file |-> CorruptUsageFile]

\* track_api_call(tokens_used) on the date `today`, self.usage_data being
\* usage_data: whether it raised, and usage_data and the file as it leaves
\* them
track_api_call(file, usage_data, today, tokens_used, outcome) ==
   LET raise(data) == [raised |-> TRUE, usage_data |-> data, file |-> file]
   IN IF usage_data.t # "dict" THEN raise(usage_data)
      ELSE IF ~dict_has(usage_data, K_date) THEN raise(usage_data)
      ELSE
      LET d1 == IF dict_get(usage_data, K_date, JNull) # JStr(today)
                THEN usage(JInt(0), JStr(today),
                           dict_get(usage_data, K_monthly_cost, JInt(0)))
                ELSE usage_data
      IN IF ~dict_has(d1, K_daily_calls) THEN raise(d1)
         ELSE IF dict_get(d1, K_daily_calls, JNull).t # "num" THEN raise(d1)
         ELSE
         LET d2 == usage(JInt(dict_get(d1, K_daily_calls, JNull).v + 1),
                         dict_get(d1, K_date, JNull),
                         dict_get(d1, K_monthly_cost, JNull))
         IN IF ~dict_has(d1, K_monthly_cost)
            THEN raise(JDict(<<<<K_daily_calls, dict_get(d2, K_daily_calls, JNull)>>,
                               <<K_date, dict_get(d2, K_date, JNull)>>>>))
            ELSE IF dict_get(d1, K_monthly_cost, JNull).t # "num" THEN raise(d2)
            ELSE
            LET d3 == usage(dict_get(d2, K_daily_calls, JNull),
                            dict_get(d2, K_date, JNull),
                            JInt(dict_get(d2, K_monthly_cost, JNull).v
                                    + tokens_used * cost_per_token))
                saved == _save_usage_data(file, d3, outcome)
            IN [raised |-> saved.raised, usage_data |-> d3, file |-> saved.file]

UsageFiles ==
   {NoUsageFile, UnreadableUsageFile, CorruptUsageFile}
      \cup {ParsedUsageFile(d) : d \in
              {usage(JInt(3), JStr(D_1), JInt(0)),
               usage(JInt(3), JStr(D_2), JInt(1600)),
               JDict(<<<<K_daily_calls, JInt(3)>>, <<K_monthly_cost, JInt(0)>>>>),
               JDict(<<<<K_date, JStr(D_1)>>, <<K_monthly_cost, JInt(0)>>>>),
               JDict(<<<<K_date, JStr(D_2)>>, <<K_monthly_cost, JInt(0)>>>>),
               JDict(<<<<K_daily_calls, JInt(3)>>, <<K_date, JStr(D_1)>>>>),
               usage(JStr(<<"3">>), JStr(D_1), JInt(0)),
               usage(JInt(3), JStr(D_1), JNull),
               JDict(<<>>), JList(<<>>), JNull}}
TokensUsed == {0, 100}

\* an APIUsageMonitor is built with `file` at api_usage.json and
\* track_api_call is called on it, on the date D_1
CallTrackApiCall(file, tokens_used, outcome) ==
   /\ call = NoCall
   /\ call' = [fn |-> "track_api_call", file |-> file, tokens_used |-> tokens_used,
               outcome |-> outcome,
               loaded |-> _load_usage_data(file, D_1),
               ret |-> track_api_call(file, _load_usage_data(file, D_1), D_1,
                                      tokens_used, outcome)]
   /\ UNCHANGED <<monitorVars, historyVars>>
   /\ UNCHANGED cacheVars
   /\ UNCHANGED schedVars

\* ----------------------------------------- get_or_translate, called twice
K_title == <<"t","i","t","l","e">>
K_summary == <<"s","u","m","m","a","r","y">>
X_a_bc == <<"a"," ","b","c">>
X_a__bc == <<" ","a"," ","\n","b","c"," ">>
X_ab == <<" ","a","b"," ">>
\* texts of KeyTextLimit + 1 characters that differ in the last one only
LongText(last) ==
   [i \in 1..(KeyTextLimit + 1) |-> IF i > KeyTextLimit THEN last ELSE "x"]
X_long_a == LongText("a")
X_long_b == LongText("b")
PairTexts == {X_a_bc, X_a__bc, X_long_a, X_long_b}
PairTypes == {K_title, K_summary}

\* a new SmartTranslationCache (no cache file) serves get_or_translate for
\* (text, translation_type), translate_func answering with `outcome`, and
\* then for (text2, translation_type2): `first` and `second` tell how each
\* call returned, `translated` the text the cached result was made from
CallGetOrTranslateTwice(text, translation_type, outcome, text2, translation_type2) ==
   LET start == get_or_translate_start(EmptyCache, 0, daily_limit, text, translation_type)
       resume == get_or_translate_resume(EmptyCache, 0, 0, start.cleaned_text,
                                         start.cache_key, outcome)
       cache1 == IF start.how = "await" THEN resume.cache ELSE EmptyCache
       calls1 == IF start.how = "await" THEN resume.daily_api_calls ELSE 0
       second == get_or_translate_start(cache1, calls1, daily_limit, text2,
                                        translation_type2)
   IN /\ call = NoCall
      /\ call' = [fn |-> "get_or_translate",
                  text |-> text, translation_type |-> translation_type,
                  outcome |-> outcome,
                  first |-> IF start.how = "await" THEN resume.how ELSE start.how,
                  translated |-> start.cleaned_text,
                  text2 |-> text2, translation_type2 |-> translation_type2,
                  second |-> second.how,
                  ret |-> second.ret]
      /\ UNCHANGED <<monitorVars, historyVars>>
      /\ UNCHANGED cacheVars
      /\ UNCHANGED schedVars

\* the call has returned and its result has been read
Return ==
   /\ call # NoCall
   /\ call' = NoCall
   /\ UNCHANGED <<monitorVars, historyVars>>
   /\ UNCHANGED cacheVars
   /\ UNCHANGED schedVars

NextCalls ==
   \/ \E title \in Titles, summary \in Summaries : CallPrefilter(title, summary)
   \/ \E title \in Titles, summary \in Summaries, api \in ApiOutcomes :
         CallClassifyWithClaude(title, summary, api)
   \/ \E title \in Titles, summary \in Summaries, api \in ApiOutcomes :
         CallClassifyWithPrefilter(title, summary, api)
   \/ \E title \in ScoreTitles, summary \in Summaries :
         CallCalculateKeywordScore(title, summary)
   \/ \E title \in Titles, summary \in KeywordSummaries, api \in ApiOutcomes :
         CallIsDinosaurNewsWithApi(title, summary, api)
   \/ \E title \in Titles, summary \in Summaries, api \in ApiOutcomes :
         CallClassifyTextAdvanced(title, summary, api)
   \/ \E title \in Titles, summary \in Summaries, api \in ApiOutcomes :
         CallHybridClassification(title, summary, api)
   \/ \E e \in Entries, age \in Ages, api \in FeedApiOutcomes : CallFeedEntry(e, age, api)
   \/ \E e \in Entries, published \in PublicationTimes, utc_offset \in UtcOffsets,
         api \in FeedApiOutcomes : CallDatedEntry(e, published, utc_offset, api)
   \/ \E sent \in SeenSets, title \in IdTitles, link \in IdLinks :
         CallIsNewItem(sent, title, link)
   \/ \E file \in StateFiles : CallLoadState(file)
   \/ \E text \in TranslateTexts, outcome \in TranslationOutcomes :
         CallEnhancedTranslate(text, outcome)
   \/ \E bot_token \in Tokens, channel_id \in ChannelIds, connection \in ConnectionOutcomes :
         CallMain(bot_token, channel_id, connection)
   \/ \E file \in UsageFiles, tokens_used \in TokensUsed, outcome \in SaveOutcomes :
         CallTrackApiCall(file, tokens_used, outcome)
   \/ \E text \in PairTexts, translation_type \in PairTypes, outcome \in TranslateOutcomes,
         text2 \in PairTexts, translation_type2 \in PairTypes :
         CallGetOrTranslateTwice(text, translation_type, outcome, text2, translation_type2)
   \/ Return

SpecCalls == Init /\ [][NextCalls]_vars

\* ------------------------------------------------- translation cache calls
CacheTexts == {X_ab, X_a_bc, X_a__bc}
CacheTypes == {K_title, K_summary}

\* cache files a process may find at its first start: none, an unpicklable
\* one, one whose entry is 31 days old, one whose entry is a day old
CacheFiles ==
   {NoCacheFile, CorruptCacheFile}
      \cup {[kind |-> "pickle",
             cache |-> [k \in {_get_cache_key(X_a_bc, K_title)} |->
                          [result |-> X_ko, timestamp |-> ts]]] :
               ts \in {0 - (max_age_days + 1), 0 - 1}}

InitCache ==
   /\ StartMonitor
   /\ claude_client
   /\ \E file \in CacheFiles : StartCache(file)
   /\ StartScheduler

\* coroutine t, the first free one (they are interchangeable), runs
\* get_or_translate(text, translate_func, translation_type) up to its return
\* or to the await of translate_func
StartCall(t, text, translation_type) ==
   /\ call = NoCall
   /\ tasks[t] = NoTask
   /\ \A u \in 1..(t - 1) : tasks[u] # NoTask
   /\ LET r == get_or_translate_start(cache, daily_api_calls, daily_limit, text,
                                      translation_type)
      IN /\ r.how = "await" => translate_calls < MaxInvocations
         /\ tasks' = IF r.how = "await"
                     THEN [tasks EXCEPT ![t] =
                             [pc |-> "await", cleaned_text |-> r.cleaned_text,
                              cache_key |-> r.cache_key]]
                     ELSE tasks
         /\ translate_calls' = IF r.how = "await" THEN translate_calls + 1
                               ELSE translate_calls
         /\ call' = [fn |-> "get_or_translate", step |-> "start",
                     text |-> text, translation_type |-> translation_type,
                     how |-> r.how, ret |-> r.ret, cleaned_text |-> r.cleaned_text,
                     cache_key |-> r.cache_key,
                     age |-> IF r.how = "hit" THEN now - cache[r.cache_key].timestamp
                             ELSE 0,
                     found |-> daily_api_calls]
   /\ UNCHANGED <<cache, cache_file, daily_api_calls, now, ticks, counted_today>>
   /\ UNCHANGED <<monitorVars, historyVars>>
   /\ UNCHANGED schedVars

\* translate_func answers coroutine t, which runs to its return
ResumeCall(t, outcome, save_outcome) ==
   /\ call = NoCall
   /\ tasks[t] # NoTask
   /\ LET r == get_or_translate_resume(cache, daily_api_calls, now,
                                       tasks[t].cleaned_text, tasks[t].cache_key,
                                       outcome)
      IN /\ cache' = r.cache
         /\ daily_api_calls' = r.daily_api_calls
         /\ cache_file' = IF r.save THEN _save_cache(cache_file, r.cache, save_outcome)
                          ELSE cache_file
         /\ counted_today' = IF r.how = "api" THEN counted_today + 1 ELSE counted_today
         /\ call' = [fn |-> "get_or_translate", step |-> "resume",
                     outcome |-> outcome, how |-> r.how, ret |-> r.ret,
                     cleaned_text |-> tasks[t].cleaned_text,
                     cache_key |-> tasks[t].cache_key]
   /\ tasks' = [tasks EXCEPT ![t] = NoTask]
   /\ UNCHANGED <<now, ticks, translate_calls>>
   /\ UNCHANGED <<monitorVars, historyVars>>
   /\ UNCHANGED schedVars

\* the wall clock passes midnight: a day later, or max_age_days + 1 later
Tick(d) ==
   /\ call = NoCall
   /\ ticks < MaxTicks
   /\ ticks' = ticks + 1
   /\ now' = now + d
   /\ counted_today' = 0
   /\ UNCHANGED <<cache, cache_file, daily_api_calls, tasks, translate_calls, call>>
   /\ UNCHANGED <<monitorVars, historyVars>>
   /\ UNCHANGED schedVars

\* the process dies and is started again: SmartTranslationCache.__init__
RestartCache ==
   /\ call = NoCall
   /\ restarts < MaxRestarts
   /\ restarts' = restarts + 1
   /\ cache' = _load_cache(cache_file, now)
   /\ daily_api_calls' = 0
   /\ tasks' = [t \in 1..MaxTasks |-> NoTask]
   /\ translate_calls' = 0
   /\ counted_today' = 0
   /\ call' = NoCall
   /\ UNCHANGED <<cache_file, now, ticks>>
   /\ UNCHANGED <<sent_items, state_file, claude_client, phase, mode, feed_idx,
                  entry_idx, new_entries, all_items, cycles, historyVars>>
   /\ UNCHANGED schedVars

\* the outcome of _save_cache is drawn only where it is called
SaveOutcomesFor(outcome) ==
   IF outcome.kind = "result" /\ outcome.text # <<>>
         /\ (daily_api_calls + 1) % SaveEvery = 0
   THEN SaveOutcomes ELSE {"ok"}

NextCache ==
   \/ \E t \in 1..MaxTasks, text \in CacheTexts, translation_type \in CacheTypes :
         StartCall(t, text, translation_type)
   \/ \E t \in 1..MaxTasks, outcome \in TranslateOutcomes :
         \E save_outcome \in SaveOutcomesFor(outcome) : ResumeCall(t, outcome, save_outcome)
   \/ \E d \in {1, max_age_days + 1} : Tick(d)
   \/ RestartCache
   \/ Return

SpecCache == InitCache /\ [][NextCache]_vars

\* ------------------------------------------------- translation cache batch
\* One caller translating titles one after the other, under a daily limit
\* above SaveEvery.
BatchText(k) == <<"t", "x", LowerCase[k]>>

\* get_or_translate(BatchText(k), translate_func, 'title') from its call to
\* its return, translate_func doing `outcome`. The texts are interchangeable:
\* the call is on a text already in the cache or on the first one that is
\* not.
TranslateOne(k, outcome, save_outcome) ==
   /\ call = NoCall
   /\ k <= Cardinality(DOMAIN cache) + 1
   /\ LET s == get_or_translate_start(cache, daily_api_calls, BatchDailyLimit,
                                      BatchText(k), K_title)
          r == get_or_translate_resume(cache, daily_api_calls, now, s.cleaned_text,
                                       s.cache_key, outcome)
      IN IF s.how = "await"
         THEN /\ translate_calls < MaxBatchCalls
              /\ cache' = r.cache
              /\ daily_api_calls' = r.daily_api_calls
              /\ cache_file' =
                    IF r.save THEN _save_cache(cache_file, r.cache, save_outcome)
                    ELSE cache_file
              /\ translate_calls' = translate_calls + 1
              /\ counted_today' =
                    IF r.how = "api" THEN counted_today + 1 ELSE counted_today
              /\ call' = [fn |-> "get_or_translate", step |-> "whole",
                          text |-> BatchText(k), how |-> r.how, ret |-> r.ret]
         ELSE /\ call' = [fn |-> "get_or_translate", step |-> "whole",
                          text |-> BatchText(k), how |-> s.how, ret |-> s.ret]
              /\ UNCHANGED <<cache, cache_file, daily_api_calls, translate_calls,
                             counted_today>>
   /\ UNCHANGED <<now, tasks, ticks>>
   /\ UNCHANGED <<monitorVars, historyVars>>
   /\ UNCHANGED schedVars

NextBatch ==
   \/ \E k \in 1..NumBatchTexts, outcome \in TranslateOutcomes :
         \E save_outcome \in SaveOutcomesFor(outcome) :
            TranslateOne(k, outcome, save_outcome)
   \/ RestartCache
   \/ Return

SpecBatch == InitCache /\ [][NextBatch]_vars

\* ------------------------------------------------------------- scheduling
\* start_monitoring and the AsyncIOScheduler it drives. The clock counts
\* scheduling intervals: the job's interval, 30 minutes, is one unit.
interval == 1
max_instances == 1

\* the executor refuses a run time while max_instances executions of the
\* job are in progress
max_instances_unbounded(running) == FALSE
max_instances_reached(running) == running >= max_instances

\* the trigger's first fire time for a scheduler started at `t`
first_fire_time(t) ==
   IF start_date >= t THEN start_date
   ELSE start_date + (((t - start_date) + interval - 1) \div interval) * interval
\* the latest fire time due at `t`, the job's next run time being due
last_due(t) == next_run_time + ((t - next_run_time) \div interval) * interval

\* executions of check_all_sources_optimized in progress
RunningCycles == (IF sm_pc = "initial_run" THEN 1 ELSE 0) + instances

\* scheduler.add_job(check_all_sources_optimized, 'interval', minutes=30,
\* max_instances=1): the trigger's start date is now + interval
AddJob ==
   /\ sm_pc = "add_job"
   /\ job_added' = TRUE
   /\ start_date' = clock + interval
   /\ sm_pc' = "before_initial_run"
   /\ UNCHANGED <<scheduler_running, next_run_time, instances, clock,
                  scheduled_runs, skipped_runs>>
   /\ UNCHANGED <<monitorVars, historyVars, call, cacheVars>>

\* await self.check_all_sources_optimized() is entered
InitialRunBegins ==
   /\ sm_pc = "before_initial_run"
   /\ sm_pc' = "initial_run"
   /\ UNCHANGED <<job_added, start_date, scheduler_running, next_run_time,
                  instances, clock, scheduled_runs, skipped_runs>>
   /\ UNCHANGED <<monitorVars, historyVars, call, cacheVars>>

\* the initial run returns or raises: either way start_monitoring goes on
InitialRunEnds ==
   /\ sm_pc = "initial_run"
   /\ sm_pc' = "start_scheduler"
   /\ UNCHANGED <<job_added, start_date, scheduler_running, next_run_time,
                  instances, clock, scheduled_runs, skipped_runs>>
   /\ UNCHANGED <<monitorVars, historyVars, call, cacheVars>>

\* self.scheduler.start(): the pending job gets its next run time
SchedulerStart ==
   /\ sm_pc = "start_scheduler"
   /\ scheduler_running' = TRUE
   /\ next_run_time' = first_fire_time(clock)
   /\ sm_pc' = "loop"
   /\ UNCHANGED <<job_added, start_date, instances, clock, scheduled_runs,
                  skipped_runs>>
   /\ UNCHANGED <<monitorVars, historyVars, call, cacheVars>>

\* the running scheduler wakes up with the job due: the run times due are
\* coalesced into one, which the executor starts or refuses
SchedulerWakeup ==
   /\ scheduler_running
   /\ job_added
   /\ next_run_time <= clock
   /\ IF max_instances_reached(instances)
      THEN /\ skipped_runs' = skipped_runs + 1
           /\ UNCHANGED <<instances, scheduled_runs>>
      ELSE /\ instances' = instances + 1
           /\ scheduled_runs' = scheduled_runs + 1
           /\ UNCHANGED skipped_runs
   /\ next_run_time' = last_due(clock) + interval
   /\ UNCHANGED <<sm_pc, job_added, start_date, scheduler_running, clock>>
   /\ UNCHANGED <<monitorVars, historyVars, call, cacheVars>>

\* an execution of the job returns or raises
ScheduledRunEnds ==
   /\ instances > 0
   /\ instances' = instances - 1
   /\ UNCHANGED <<sm_pc, job_added, start_date, scheduler_running, next_run_time,
                  clock, scheduled_runs, skipped_runs>>
   /\ UNCHANGED <<monitorVars, historyVars, call, cacheVars>>

\* the monitoring loop is cancelled or interrupted: the finally clause
\* shuts the scheduler down
StopMonitoring ==
   /\ sm_pc = "loop"
   /\ sm_pc' = "stopped"
   /\ scheduler_running' = FALSE
   /\ UNCHANGED <<job_added, start_date, next_run_time, instances, clock,
                  scheduled_runs, skipped_runs>>
   /\ UNCHANGED <<monitorVars, historyVars, call, cacheVars>>

\* an interval goes by
TimePasses ==
   /\ clock < MaxClock
   /\ clock' = clock + 1
   /\ UNCHANGED <<sm_pc, job_added, start_date, scheduler_running, next_run_time,
                  instances, scheduled_runs, skipped_runs>>
   /\ UNCHANGED <<monitorVars, historyVars, call, cacheVars>>

NextSched ==
   \/ AddJob
   \/ InitialRunBegins
   \/ InitialRunEnds
   \/ SchedulerStart
   \/ SchedulerWakeup
   \/ ScheduledRunEnds
   \/ StopMonitoring
   \/ TimePasses

SpecSched == Init /\ [][NextSched]_vars

\* ------------------------------------------------------------ properties
HasKeyword(list, text) == \E i \in DOMAIN list : IsSubstring(list[i], text)
\* the text the prefilter searches: title, a space, summary, lower-cased
SearchText(title, summary) == lower(title \o <<" ">> \o summary)
\* the replies that are RELEVANT / IRRELEVANT once trimmed and case-folded
PositiveReplies == {R_RELEVANT, R_relevant_ws}
NegativeReplies == {R_IRRELEVANT, R_Irrelevant}
\* the judge gave no verdict: no client, a failed call, or another reply
NoVerdict(client, api) ==
   \/ ~client
   \/ api.kind # "reply"
   \/ api.text \notin (PositiveReplies \cup NegativeReplies)
SendsOf(e) == {k \in DOMAIN outbox : outbox[k].entry = e}

\* C1: within one process no (title, link) pair is delivered more than
\* once, and in the optimized cycle an entry whose pair is already in
\* sent_items is stopped at is_new_item: it is never classified.
C1_AtMostOnce ==
   /\ \A i \in Ids : delivered[i] <= 1
   /\ \A e \in Entries : <<"optimized", e>> \notin dup_classified
\* a pair met again in a second cycle of the same process was stopped
C1_Witness ==
   /\ restarts = 0
   /\ cycles = 2
   /\ mode = "optimized"
   /\ dedup_skipped # {}

\* C2 (as claimed): at the end of a cycle every entry that classification
\* accepted in it has been handed to send_telegram_message exactly once.
C2_AcceptedIsSent ==
   phase = "idle" => \A e \in accepted : Cardinality(SendsOf(e)) = 1

\* C3 (as claimed): an accepted item whose send did not report success in
\* the cycle is absent from the seen set persisted at the end of that cycle.
C3_UnsentNotRecorded ==
   (phase = "idle" /\ state_file.kind = "json") =>
      \A e \in accepted :
         (\A k \in SendsOf(e) : ~outbox[k].ok) => IdOf(e) \notin state_file.sent_items

\* C5 (as claimed): in both feed loops no entry whose identifier is already
\* in sent_items reaches prefilter_before_api or the judge.
C5_DedupBeforeClassify == dup_classified = {}

\* C6: when the prefilter decides, classification returns that decision
\* and classify_with_claude is not called; a reject keyword without an
\* approve keyword rejects whatever the judge would answer.
C6_PrefilterDecides ==
   /\ call.fn = "classify_with_prefilter" =>
         LET text == SearchText(call.title, call.summary)
             pre == prefilter_before_api(call.title, call.summary)
         IN /\ pre # PyNone =>
                  /\ call.ret.value = (pre = PyTrue)
                  /\ call.ret.judge_calls = 0
                  /\ ~call.ret.raised
            /\ (HasKeyword(instant_reject_keywords, text)
                  /\ ~HasKeyword(instant_approve_keywords, text)) =>
                  (~call.ret.value /\ call.ret.judge_calls = 0)
   /\ (call.fn = "fetch_rss_feed_optimized" /\ call.ret.prefiltered) =>
         (PrefilterOf[call.entry] # PyNone =>
             /\ ~call.ret.judged
             /\ call.ret.accepted = (PrefilterOf[call.entry] = PyTrue))
\* a rejected item whose judge answer would have been RELEVANT
C6_Witness ==
   /\ call.fn = "classify_with_prefilter"
   /\ claude_client
   /\ call.title = T_Covid
   /\ call.api = [kind |-> "reply", text |-> R_RELEVANT]
   /\ ~call.ret.value

\* C7: prefilter_before_api returns True iff an instant-approve keyword
\* occurs in lower(title + ' ' + summary); otherwise False iff an
\* instant-reject keyword occurs; otherwise None.
C7_PrefilterContract ==
   call.fn = "prefilter_before_api" =>
      LET text == SearchText(call.title, call.summary)
          approve == HasKeyword(instant_approve_keywords, text)
          reject == HasKeyword(instant_reject_keywords, text)
      IN /\ (call.ret = PyTrue) <=> approve
         /\ (call.ret = PyFalse) <=> (~approve /\ reject)
         /\ (call.ret = PyNone) <=> (~approve /\ ~reject)
\* keywords of both kinds are present and approve wins
C7_Witness ==
   /\ call.fn = "prefilter_before_api"
   /\ call.title = T_CovidFossil
   /\ call.ret = PyTrue

\* C8: no failure of the judge call leaves classify_with_claude as an
\* exception, and the loop pass in which the judge fails ends on the next
\* entry of the same feed.
C8_JudgeFailureContained ==
   /\ [](~judge_raised)
   /\ [][(~judge_failed /\ judge_failed') =>
            (phase' = "fetch" /\ feed_idx' = feed_idx /\ entry_idx' = entry_idx + 1)]_vars
\* after a failed judge call another entry was handled, and the cycle ended
\* with save_state
C8_Witness ==
   /\ judge_failed
   /\ after_failure >= 1
   /\ phase = "idle"
   /\ state_file.kind = "json"

C11_ConclusiveKeywordsSkipJudge ==
   (call.fn = "hybrid_classification"
       /\ keyword_confidence(call.ret.keyword_score) >= 850) =>
      \A i \in DOMAIN call.calls : call.calls[i] # "classify_text_advanced"

\* C12 (as claimed): every identifier in sent_items, and in the persisted
\* list, belongs to an item that was accepted and successfully delivered.
C12_SeenOnlyDelivered ==
   \A i \in sent_items \cup state_file.sent_items :
      i \in Ids /\ (delivered[i] > 0 \/ i \in delivered_before)

\* C13: within one process sent_items only grows, through is_new_item calls,
\* polling cycles and save_state calls that succeed or fail.
C13_SeenSetOnlyGrows ==
   [][restarts' = restarts => sent_items \subseteq sent_items']_vars
\* two cycles into a process, identifiers are held and the save has failed
C13_Witness ==
   /\ restarts = 0
   /\ cycles = 2
   /\ phase = "idle"
   /\ Cardinality(sent_items) >= 2
   /\ state_file.kind = "corrupt"

\* a state file of the shape save_state writes: an object whose
\* 'sent_items' is a list of strings
WellFormedStateFile(file) ==
   \/ file.kind = "json"
   \/ /\ file.kind = "parsed"
      /\ file.data.t = "dict"
      /\ \E i \in DOMAIN file.data.v : file.data.v[i][1] = K_sent_items
      /\ LET v == dict_get(file.data, K_sent_items, JNull)
         IN v.t = "list" /\ \A i \in DOMAIN v.v : v.v[i].t = "str"

\* C20 (as claimed): load_state returns the empty set for a state file that
\* is missing, unreadable or malformed (not JSON, or JSON of the wrong
\* shape), and the identifiers save_state wrote for a well-formed one.
C20_MalformedLoadsEmpty ==
   call.fn = "load_state" =>
      /\ ~WellFormedStateFile(call.file) => call.ret = {}
      /\ call.file.kind = "json" => call.ret = call.file.sent_items

\* a get_or_translate call has just run up to its return or its await
StartStep == call = NoCall /\ call'.fn = "get_or_translate" /\ call'.step = "start"
\* a get_or_translate call has just run from translate_func's answer on
ResumeStep == call = NoCall /\ call'.fn = "get_or_translate" /\ call'.step = "resume"

\* C14 (as claimed): get_or_translate never returns a cached translation
\* whose entry is older than max_age_days.
C14_NoExpiredHit ==
   (call.fn = "get_or_translate" /\ call.step = "start" /\ call.how = "hit") =>
      call.age <= max_age_days

\* C15: once a translation is stored under the key of (normalized text,
\* kind), a later get_or_translate call with that key returns the stored
\* result without invoking translate_func and without touching the cache or
\* the counter, whatever the daily budget.
C15_StoredIsReturned ==
   [][(StartStep /\ call'.cache_key \in DOMAIN cache) =>
         /\ call'.how = "hit"
         /\ call'.ret = cache[call'.cache_key].result
         /\ translate_calls' = translate_calls
         /\ tasks' = tasks
         /\ cache' = cache
         /\ daily_api_calls' = daily_api_calls]_vars
\* with the budget used up, a text differing from the stored one in its
\* whitespace only is answered from the entry this process stored
C15_Witness ==
   /\ call.fn = "get_or_translate"
   /\ call.step = "start"
   /\ call.how = "hit"
   /\ call.text = X_a__bc
   /\ call.found >= daily_limit
   /\ cache_file.kind = "missing"
   /\ restarts = 0

\* C16: on a cache miss with the daily budget used up, get_or_translate does
\* not invoke translate_func, returns the local fallback, and leaves the
\* cache and the counter as they were.
C16_OverLimitFallsBack ==
   [][(StartStep /\ Len(strip(call'.text)) >= 3
          /\ call'.cache_key \notin DOMAIN cache
          /\ daily_api_calls >= daily_limit) =>
         /\ call'.how = "over_limit"
         /\ call'.ret = _fallback_translation(call'.cleaned_text)
         /\ translate_calls' = translate_calls
         /\ tasks' = tasks
         /\ cache' = cache
         /\ daily_api_calls' = daily_api_calls]_vars
\* a miss refused on the budget
C16_Witness ==
   /\ call.fn = "get_or_translate"
   /\ call.step = "start"
   /\ call.how = "over_limit"
   /\ call.found >= daily_limit
   /\ call.cache_key \notin DOMAIN cache

\* C17: when translate_func answers with a non-empty result, one entry is
\* written under the key and the counter goes up by one; when it raises or
\* answers with an empty result, the fallback is returned and the cache and
\* the counter stay as they were.
C17_ResumeEffects ==
   [][ResumeStep =>
         LET key == call'.cache_key
             outcome == call'.outcome
         IN IF outcome.kind = "result" /\ outcome.text # <<>>
            THEN /\ call'.ret = outcome.text
                 /\ DOMAIN cache' = DOMAIN cache \cup {key}
                 /\ cache'[key] = [result |-> outcome.text, timestamp |-> now]
                 /\ \A k \in DOMAIN cache \ {key} : cache'[k] = cache[k]
                 /\ daily_api_calls' = daily_api_calls + 1
            ELSE /\ call'.ret = _fallback_translation(call'.cleaned_text)
                 /\ cache' = cache
                 /\ daily_api_calls' = daily_api_calls]_vars
\* a call that failed left the counter behind the invocations
C17_Witness ==
   /\ call.fn = "get_or_translate"
   /\ call.step = "resume"
   /\ call.how = "fallback"
   /\ call.outcome.kind = "raise"
   /\ daily_api_calls = 1
   /\ translate_calls = 2

\* C18 (as claimed): translate_func is invoked at most daily_limit times
\* between two resets of the daily counter.
C18_InvocationsWithinLimit == translate_calls <= daily_limit

\* C19 (as claimed): the daily counter is reset when the date changes, so a
\* get_or_translate call made on a date on which nothing has been counted
\* yet is not refused on the budget.
C19_CounterResetOnDateChange ==
   (call.fn = "get_or_translate" /\ call.step = "start" /\ counted_today = 0) =>
      call.how # "over_limit"

\* C30 (as claimed): for the title 'NASA rover captures new image of Martian
\* crater' with an empty summary, classification returns false out of the
\* prefilter, without a call of the judge.
C30_NasaRoverPrefilterRejects ==
   (call.fn = "classify_with_prefilter" /\ call.title = T_NasaRover
       /\ call.summary = T_Empty) =>
      /\ prefilter_before_api(call.title, call.summary) = PyFalse
      /\ call.ret.value = FALSE
      /\ call.ret.judge_calls = 0

\* what hybrid_classification answers for each sample text when the judge
\* call fails, which leaves the decision to the keyword stage
KeywordStageOf ==
   [title \in Titles, summary \in Summaries |->
      hybrid_classification(title, summary, [kind |-> "exception", text |-> T_Empty])]
KeywordStageMethods == {"keyword_clear_signal", "conservative_reject"}

\* C29: the confidence the keyword stage of hybrid_classification assigns is
\* non-decreasing in the absolute value of the keyword score: no text with a
\* larger |score| gets a smaller confidence than the call at hand.
C29_KeywordConfidenceMonotone ==
   (call.fn = "hybrid_classification" /\ call.ret.method \in KeywordStageMethods) =>
      \A title \in Titles, summary \in Summaries :
         LET other == KeywordStageOf[title, summary]
         IN Abs(other.keyword_score) >= Abs(call.ret.keyword_score) =>
               other.confidence >= call.ret.confidence
\* a score of -9 is given the capped confidence 0.9, scores of 6, 7 and 10
\* being among the samples it is compared with
C29_Witness ==
   /\ call.fn = "hybrid_classification"
   /\ call.title = T_CancerRocket
   /\ call.ret.method = "keyword_clear_signal"
   /\ call.ret.keyword_score = -9
   /\ call.ret.confidence = 900
   /\ {6, 7, 10} \subseteq
         {KeywordStageOf[t, x].keyword_score : t \in Titles, x \in Summaries}

\* C27: the identifier is a function of (title, link) alone, so entries
\* that agree on both share it whatever their summary or feed; and in the
\* optimized feed loop an entry whose identifier is already in sent_items,
\* from whichever feed it was recorded, is stopped at is_new_item: it is
\* neither judged nor accepted.
C27_SameTitleLinkSuppressed ==
   /\ \A e1, e2 \in Entries :
         (Entry[e1].title = Entry[e2].title /\ Entry[e1].link = Entry[e2].link) =>
            IdOf(e1) = IdOf(e2)
   /\ [][(phase = "fetch" /\ mode = "optimized" /\ entry_idx' = entry_idx + 1) =>
            \A e \in Entries :
               IdOf(e) \in sent_items =>
                  /\ judge_calls'[e] = judge_calls[e]
                  /\ e \in accepted' => e \in accepted
                  /\ <<"optimized", e>> \notin dup_classified']_vars
\* the first feed's only recorded entry went to the judge, whose call
\* failed; the one entry handled since, the first of the second feed, has
\* the same title and link and was stopped at is_new_item
C27_Witness ==
   /\ restarts = 0
   /\ cycles = 1
   /\ mode = "optimized"
   /\ phase = "fetch"
   /\ feed_idx = 2
   /\ entry_idx = 1
   /\ judge_failed
   /\ after_failure = 1
   /\ sent_items = {IdOf(3)}
   /\ dedup_skipped = {IdOf(3)}

\* C24 (as first stated): whenever the translator's reply, trimmed, is
\* longer than 3 characters, enhanced_translate returns it.
C24_LongReplyReturned ==
   (/\ call.fn = "enhanced_translate"
    /\ call.client
    /\ call.text # <<>>
    /\ call.outcome.kind = "result"
    /\ Len(strip(call.outcome.text)) > MinTranslationLen) =>
      call.ret.ret = strip(call.outcome.text)
\* C24: enhanced_translate never raises; for empty text it returns the empty
\* string without a remote call; for non-empty text it never returns the
\* empty string: it returns the translator's trimmed reply when there is a
\* client, the reply is longer than 3 characters and does not contain the
\* refusal phrase, and the pattern substitution of the text in every other
\* case.
C24_TranslationOrFallback ==
   call.fn = "enhanced_translate" =>
      LET translated == strip(call.outcome.text)
          usable == /\ call.client
                    /\ call.outcome.kind = "result"
                    /\ Len(translated) > MinTranslationLen
                    /\ ~IsSubstring(CannotTranslate, translated)
      IN /\ ~call.ret.raised
         /\ call.text = <<>> => (call.ret.ret = <<>> /\ call.ret.remote_calls = 0)
         /\ call.text # <<>> =>
               /\ call.ret.ret # <<>>
               /\ call.ret.ret = IF usable THEN translated
                                 ELSE fallback_translate(call.text)
\* the translator answers that it cannot translate: the reply is longer
\* than 3 characters and the patterns' substitution is what is returned
C24_Witness ==
   /\ call.fn = "enhanced_translate"
   /\ call.client
   /\ call.text = T_FossilsFound
   /\ call.outcome = [kind |-> "result", text |-> Tr_RefusalLong]
   /\ call.ret.remote_calls = 1
   /\ call.ret.ret = <<"#hwa","#seok"," ","#bal","#gyeon","#doen",":"," ","#ppyeo">>

\* C23: no failure ends a polling cycle early. While the feeds are read,
\* every step (a feed that cannot be fetched or parsed, an entry whose
\* judge call fails, any other entry) leads to the next entry, the next
\* feed or, after the last feed, the send loop; the send loop goes on to
\* the next message whatever became of the last; and the cycle ends only
\* with the list exhausted, by save_state.
C23_CycleSurvivesFailures ==
   [][/\ (phase = "fetch" /\ restarts' = restarts) =>
            /\ cycles' = cycles
            /\ IF entry_idx' = entry_idx + 1
               THEN phase' = "fetch" /\ feed_idx' = feed_idx
               ELSE IF feed_idx < NumFeeds
               THEN phase' = "fetch" /\ feed_idx' = feed_idx + 1 /\ entry_idx' = 0
               ELSE phase' = "send"
      /\ (phase = "send" /\ restarts' = restarts) =>
            IF all_items # <<>>
            THEN phase' = "send" /\ all_items' = Tail(all_items)
            ELSE /\ phase' = "idle"
                 /\ \E outcome \in SaveOutcomes :
                       state_file' = save_state(state_file, sent_items, outcome)]_vars
\* a cycle in which a judge call failed has gone on to a later entry,
\* recorded it, and ended with the state file written
C23_Witness ==
   /\ phase = "idle"
   /\ cycles = 1
   /\ restarts = 0
   /\ judge_failed
   /\ after_failure >= 1
   /\ Cardinality(sent_items) = 2
   /\ state_file = [kind |-> "json", sent_items |-> sent_items]

\* C25: at no time are two executions of check_all_sources_optimized in
\* progress, the initial run of start_monitoring and the runs the interval
\* scheduler starts taken together, however long a run lasts.
C25_NoConcurrentCycles == RunningCycles <= 1
\* a scheduled run has outlasted the interval: its next run time came while
\* it was in progress and was refused, after an initial run that itself
\* took longer than the interval
C25_Witness ==
   /\ instances = 1
   /\ skipped_runs = 1
   /\ scheduled_runs = 1
   /\ start_date < next_run_time - interval
   /\ sm_pc = "loop"

\* the required settings that are missing in the environment main ran in
MissingSettings ==
   {n \in RequiredSettings :
      \/ n = N_TOKEN /\ py_not(call.bot_token)
      \/ n = N_CHANNEL /\ py_not(call.channel_id)}
\* C22: with the bot token or the channel id missing, the channel id
\* rejected by validate_channel_id, or the connection test failing, main
\* starts no polling cycle; and when a required setting is missing, the
\* required settings its report names are the missing ones.
C22_RefusesAndNamesMissing ==
   call.fn = "main" =>
      /\ (\/ MissingSettings # {}
          \/ validate_channel_id(call.channel_id.value).raised
          \/ call.connection # "ok") => ~call.ret.cycle_started
      /\ MissingSettings # {} =>
            call.ret.named \cap RequiredSettings = MissingSettings

\* a usage object as track_api_call leaves it: the three fields, the
\* counters numbers and the date a text
WellFormedUsage(data) ==
   /\ data.t = "dict"
   /\ \A k \in {K_daily_calls, K_date, K_monthly_cost} : dict_has(data, k)
   /\ dict_get(data, K_daily_calls, JNull).t = "num"
   /\ dict_get(data, K_monthly_cost, JNull).t = "num"
   /\ dict_get(data, K_date, JNull).t = "str"
\* C21: whatever the daily-usage file holds (nothing, something unreadable,
\* or JSON of another shape, such as an object without its date or
\* daily_calls), loading yields a well-formed usage object, the default
\* one unless the file held a well-formed one, and the track_api_call that
\* follows, able to write the file, does not raise.
C21_MalformedUsageTolerated ==
   (call.fn = "track_api_call" /\ call.outcome = "ok") =>
      /\ WellFormedUsage(call.loaded)
      /\ ~call.ret.raised

\* the cache entries a crash would lose now: those in memory that loading
\* the cache file would not give back
Unflushed == DOMAIN cache \ DOMAIN _load_cache(cache_file, now)
\* C28: at every point fewer than 10 entries of the in-memory translation
\* cache are missing from the cache file, so a crash loses fewer than 10
\* translations.
C28_UnflushedBelowTen == Cardinality(Unflushed) < SaveEvery

\* C31: an entry published more than 24 hours ago is skipped with no
\* effect (the seen set is as before, nothing is classified, nothing is
\* appended), and an entry with no publication time is handled as a fresh
\* one is.
C31_StaleSkippedUndatedFresh ==
   call.fn = "fetch_rss_feed_optimized:dated" =>
      /\ (call.published.dated /\ call.published.hours_ago > freshness_hours) =>
            call.ret = Skip(call.before)
      /\ ~call.published.dated =>
            call.ret = fetch_entry_optimized(call.before, call.client, call.entry,
                                             "fresh", call.api, 1)

\* C32: is_new_item returns true exactly when the identifier was absent
\* before the call, and then adds it; the same call repeated at once
\* returns false and changes nothing. So the second is_new_item that
\* fetch_rss_feed_optimized makes on an entry it has just checked is false:
\* an entry that passed the first check is recorded and nothing is appended
\* for it.
C32_CheckReserves ==
   /\ call.fn = "is_new_item" =>
         LET item_id == generate_item_id(call.title, call.link)
         IN /\ call.ret.ret = (item_id \notin call.before)
            /\ call.ret.sent_items = call.before \cup {item_id}
            /\ ~call.again.ret
            /\ call.again.sent_items = call.ret.sent_items
   /\ (call.fn = "fetch_rss_feed_optimized" /\ call.age # "stale" /\ ~call.seen) =>
         /\ IdOf(call.entry) \in call.ret.sent_items
         /\ call.ret.items = <<>>
\* a pair not seen before is checked, with other identifiers recorded: the
\* call says new, the repeated call says seen
C32_Witness ==
   /\ call.fn = "is_new_item"
   /\ call.title = X_a
   /\ call.link = X_c
   /\ call.before = {generate_item_id(X_abt, X_bc)}
   /\ call.ret.ret
   /\ ~call.again.ret
   /\ Cardinality(call.again.sent_items) = 2

\* C35: after one pair has been marked seen, is_new_item returns true for
\* any pair that differs from it in title or link.
C35_DistinctPairsNotDuplicates ==
   call.fn = "is_new_item" =>
      \A title \in IdTitles, link \in IdLinks :
         (/\ <<title, link>> # <<call.title, call.link>>
          /\ call.before = is_new_item({}, title, link).sent_items) => call.ret.ret

\* C33: an item the prefilter leaves undecided goes to the judge:
\* classify_with_prefilter calls classify_with_claude once and returns its
\* value; the feed loop calls it once for a fresh entry it has not seen,
\* whose acceptance is the value returned, and not at all once the entry is
\* recorded.
C33_UndecidedEscalatedOnce ==
   /\ (call.fn = "classify_with_prefilter"
          /\ prefilter_before_api(call.title, call.summary) = PyNone) =>
         /\ call.ret.judge_calls = 1
         /\ call.ret.value =
               classify_with_claude(claude_client, call.title, call.summary,
                                    call.api).value
   /\ (call.fn = "fetch_rss_feed_optimized" /\ PrefilterOf[call.entry] = PyNone
          /\ call.age # "stale") =>
         /\ call.ret.judged = ~call.seen
         /\ ~call.seen =>
               call.ret.accepted = JudgeOf[claude_client, call.entry, call.api].value
\* 'Ancient bones reveal new species' has no instant keyword; the judge
\* answers RELEVANT and that is the decision
C33_Witness ==
   /\ call.fn = "classify_with_prefilter"
   /\ call.title = T_AncientBones
   /\ call.summary = T_Empty
   /\ prefilter_before_api(call.title, call.summary) = PyNone
   /\ claude_client
   /\ call.api = [kind |-> "reply", text |-> R_RELEVANT]
   /\ call.ret.judge_calls = 1
   /\ call.ret.value

\* what the judge stage returned for the call, and whether the claim's rule
\* accepts: RELEVANT at confidence 0.8 or more, or, below 0.8, a keyword
\* score of 5 or more
JudgeStage == classify_text_advanced(call.title, call.summary, call.api)
RuleAccepts ==
   \/ JudgeStage.decision /\ JudgeStage.confidence >= 800
   \/ JudgeStage.confidence < 800 /\ call.ret.keyword_score >= 5
\* C34 (as claimed): hybrid_classification accepts exactly when the rule
\* accepts, and in every other case rejects with confidence 0.3.
C34_RejectAtThreeTenths ==
   call.fn = "hybrid_classification" =>
      /\ call.ret.decision <=> RuleAccepts
      /\ ~RuleAccepts => call.ret.confidence = 300
\* C34 (amended): hybrid_classification accepts exactly when the rule
\* accepts. A rejection carries the judge's confidence when that is 0.8 or
\* more, min(0.9, |score|/10) when the score is -5 or less, and 0.3
\* otherwise, which is the case of a judge error with |score| below 5.
C34_RejectBiased ==
   call.fn = "hybrid_classification" =>
      /\ call.ret.decision <=> RuleAccepts
      /\ ~call.ret.decision =>
            call.ret.confidence =
               IF JudgeStage.confidence >= 800 THEN JudgeStage.confidence
               ELSE IF call.ret.keyword_score <= 0 - 5
               THEN Min(900, Abs(call.ret.keyword_score) * 100)
               ELSE 300
      /\ (call.api.kind # "reply" /\ Abs(call.ret.keyword_score) < 5) =>
            (~call.ret.decision /\ call.ret.confidence = 300)
\* the judge answers IRRELEVANT on a title about covid: the item is
\* rejected with the judge's confidence, 0.9
C34_Witness ==
   /\ call.fn = "hybrid_classification"
   /\ call.title = T_Covid
   /\ call.summary = T_Empty
   /\ call.api = [kind |-> "reply", text |-> R_IRRELEVANT]
   /\ ~call.ret.decision
   /\ call.ret.method = "claude_high_confidence"
   /\ call.ret.confidence = 900

\* C36: a cache hit of get_or_translate returns a result made by translating
\* a text equal to the whitespace-normalized request text under the same
\* kind, whatever the length of the texts.
C36_HitIsSameTextAndKind ==
   (call.fn = "get_or_translate" /\ call.second = "hit") =>
      /\ call.first = "api"
      /\ call.translated = join_split(call.text2)
      /\ call.translation_type = call.translation_type2

\* C37: for all inputs and judge outcomes is_dinosaur_news_with_api returns
\* exactly what classify_with_claude returns for the same title and summary:
\* the keyword classification never changes the decision, and
\* classify_with_claude is called exactly once.
C37_ApiDecides ==
   call.fn = "is_dinosaur_news_with_api" =>
      LET j == classify_with_claude(call.client, call.title, call.summary, call.api)
      IN /\ call.ret.raised = j.raised
         /\ call.ret.value = j.value
         /\ call.ret.judge_calls = 1
\* the judge answers RELEVANT on 'rocket', which the keyword classification
\* excludes: the item is accepted
C37_Witness ==
   /\ call.fn = "is_dinosaur_news_with_api"
   /\ call.client
   /\ call.title = T_Rocket
   /\ call.api = [kind |-> "reply", text |-> R_RELEVANT]
   /\ ~call.ret.keyword_result
   /\ call.ret.keyword_result = is_dinosaur_news_traditional(call.title, call.summary)
   /\ call.ret.value

\* C38: for every title and summary the score _calculate_keyword_score
\* returns lies between -10 and +10 inclusive.
C38_ScoreWithinTen ==
   call.fn = "_calculate_keyword_score" =>
      (call.ret >= 0 - 10 /\ call.ret <= 10)

=============================================================================
